---- MODULE Spec2Model ----
(***************************************************************************)
(* A model of the gsorm query builder (src/gsorm.go): the Builder state,   *)
(* its fluent configuration methods, the statement composers, Clone, the   *)
(* Set/DB singleton and the transaction helpers.                           *)
(*                                                                         *)
(* Go strings are modelled as sequences of one-character strings, so that  *)
(* strings.Contains, strings.Join and the counting of '?' placeholders are *)
(* computed on the text the code produces.  Go slices are modelled by      *)
(* value (sequences): the code never shares a backing array between two    *)
(* builders (Clone uses make+copy for every list).  Pointers to Builder    *)
(* are indices into heap; 0 is nil.                                        *)
(***************************************************************************)
EXTENDS Integers, Sequences, FiniteSets, TLC

VARIABLES gsormOnce, gsormInstance, nb, heap, txs, wt, exec, ret, conc

vars == <<gsormOnce, gsormInstance, nb, heap, txs, wt, exec, ret, conc>>

(***************************************************************************)
(* Bounds of the model.                                                    *)
(***************************************************************************)
\* number of Builder objects that can be allocated
MaxBuilders == 2
\* number of transactions the connection can begin
MaxTx == 2
\* cap on the total number of entries in the lists of one builder
MaxItems == 2

(***************************************************************************)
(* String literals of the source.                                          *)
(***************************************************************************)
sStar == <<"*">>
sSelect == <<"S","E","L","E","C","T"," ">>
sCommaSp == <<","," ">>
sFrom == <<" ","F","R","O","M"," ">>
sSp == <<" ">>
sJoin == <<" ","J","O","I","N"," ">>
sOn == <<" ","O","N"," ">>
sWhere == <<" ","W","H","E","R","E"," ">>
sGroupBy == <<" ","G","R","O","U","P"," ","B","Y"," ">>
sHaving == <<" ","H","A","V","I","N","G"," ">>
sOrderBy == <<" ","O","R","D","E","R"," ","B","Y"," ">>
sLimitQ == <<" ","L","I","M","I","T"," ","?">>
sOffsetQ == <<" ","O","F","F","S","E","T"," ","?">>
sSpQ == <<" ","?">>
sQ == <<"?">>
sComma == <<",">>
sAND == <<"A","N","D">>
sOR == <<"O","R">>
sINopen == <<"I","N"," ","(">>
sClose == <<")">>
sIN == <<"I","N">>
sIsNull == <<"I","S"," ","N","U","L","L">>
sIsNotNull == <<"I","S"," ","N","O","T"," ","N","U","L","L">>
sLEFT == <<"L","E","F","T">>
sRIGHT == <<"R","I","G","H","T">>
sINNER == <<"I","N","N","E","R">>
sASC == <<"A","S","C">>
sDESC == <<"D","E","S","C">>
sCountExpr == <<"C","O","U","N","T","(","*",")"," ","a","s"," ","c","o","u","n","t">>
sSumOpen == <<"S","U","M","(">>
sSumClose == <<")"," ","a","s"," ","s","u","m">>
sMaxOpen == <<"M","A","X","(">>
sMaxClose == <<")"," ","a","s"," ","m","a","x">>
sMinOpen == <<"M","I","N","(">>
sMinClose == <<")"," ","a","s"," ","m","i","n">>
sAvgOpen == <<"A","V","G","(">>
sAvgClose == <<")"," ","a","s"," ","a","v","g">>

(***************************************************************************)
(* Library functions of package strings, on character sequences.           *)
(***************************************************************************)
\* strings.Contains(s, sub)
Contains(s, sub) ==
    \E i \in 1..(Len(s) - Len(sub) + 1) : SubSeq(s, i, i + Len(sub) - 1) = sub

\* strings.Index(s, sub), 1-based; 0 when sub does not occur
Index(s, sub) ==
    IF Contains(s, sub)
    THEN CHOOSE i \in 1..(Len(s) - Len(sub) + 1) :
            /\ SubSeq(s, i, i + Len(sub) - 1) = sub
            /\ \A j \in 1..(i - 1) : SubSeq(s, j, j + Len(sub) - 1) # sub
    ELSE 0

RECURSIVE Join(_, _)
\* strings.Join(elems, sep)
Join(elems, sep) ==
    IF Len(elems) = 0 THEN <<>>
    ELSE IF Len(elems) = 1 THEN elems[1]
    ELSE elems[1] \o sep \o Join(Tail(elems), sep)

\* number of '?' characters in a text
CountQ(s) == Cardinality({i \in 1..Len(s) : s[i] = "?"})

(***************************************************************************)
(* interface{} values: a tagged record of one shape.                       *)
(***************************************************************************)
IntV(n) == [k |-> "int", i |-> n, s |-> <<>>, l |-> <<>>]
StrV(str) == [k |-> "str", i |-> 0, s |-> str, l |-> <<>>]
NilV == [k |-> "nil", i |-> 0, s |-> <<>>, l |-> <<>>]
\* a []interface{} held in an interface{}
ListV(elems) == [k |-> "list", i |-> 0, s |-> <<>>, l |-> elems]

(***************************************************************************)
(* The Builder struct and its condition records.                           *)
(***************************************************************************)
WhereCondition(column, operator, value, logic) ==
    [Column |-> column, Operator |-> operator, Value |-> value, Logic |-> logic]

JoinCondition(type, table, condition) ==
    [Type |-> type, Table |-> table, Condition |-> condition]

OrderCondition(column, dir) == [Column |-> column, Dir |-> dir]

\* the zero value of Builder
ZeroBuilder ==
    [db |-> 0, table |-> <<>>, selectCols |-> <<>>, whereConds |-> <<>>,
     joins |-> <<>>, orderBy |-> <<>>, groupBy |-> <<>>, having |-> <<>>,
     limitVal |-> 0, offsetVal |-> 0, args |-> <<>>, tx |-> 0]

BuilderIds == 1..MaxBuilders
TxIds == 1..MaxTx

\* the builders that have been allocated so far
Alloc == 1..nb

\* total number of list entries of a builder (bounded by MaxItems)
Size(r) == Len(r.whereConds) + Len(r.joins) + Len(r.orderBy)
             + Len(r.groupBy) + Len(r.having)

\* the statement handed to the executor by the most recent call, if any
NoExec == [kind |-> "none", sql |-> <<>>, args |-> <<>>, tx |-> 0, db |-> 0]

\* the WithTransaction frame when no call is in progress or has been made
NoWT == [pc |-> "idle", b |-> 0, began |-> 0, fnCalls |-> 0, fnRet |-> "none",
         intact |-> FALSE, commits |-> 0, rollbacks |-> 0, rbErr |-> "",
         err |-> ""]

\* conc when no goroutine has been started: no goroutines, no
\* strings.Builder, an empty pool and no buffer
NoConc == [g |-> <<>>, sb |-> <<>>, pool |-> <<>>, mem |-> <<>>]

\* the result of a call: the method, the receiver (or the builder returned)
\* and the error returned ("" is nil)
Ret(op, b, err) == [op |-> op, b |-> b, err |-> err, in |-> <<>>]

\* the same for a call whose arguments in are kept
RetIn(op, b, err, in) == [op |-> op, b |-> b, err |-> err, in |-> in]

\* a configuration method: mutates the receiver in place and returns it
Configure(op, b, r) ==
    /\ b \in Alloc
    /\ heap' = [heap EXCEPT ![b] = r]
    /\ ret' = Ret(op, b, "")
    /\ exec' = NoExec
    /\ UNCHANGED <<gsormOnce, gsormInstance, nb, txs, wt, conc>>

(***************************************************************************)
(* Configuration methods.                                                  *)
(***************************************************************************)
Table(b, table) ==
    /\ b \in Alloc
    /\ Configure("Table", b, [heap[b] EXCEPT !.table = table])

Select(b, cols) ==
    /\ b \in Alloc
    /\ Configure("Select", b, [heap[b] EXCEPT !.selectCols = cols])

Where(b, column, operator, value) ==
    /\ Size(heap[b]) < MaxItems
    /\ Configure("Where", b,
         [heap[b] EXCEPT !.whereConds =
             Append(@, WhereCondition(column, operator, value, sAND))])

OrWhere(b, column, operator, value) ==
    /\ Size(heap[b]) < MaxItems
    /\ Configure("OrWhere", b,
         [heap[b] EXCEPT !.whereConds =
             Append(@, WhereCondition(column, operator, value, sOR))])

RECURSIVE Placeholders(_)
\* the placeholders slice of WhereIn: one "?" per value
Placeholders(n) == IF n = 0 THEN <<>> ELSE Append(Placeholders(n - 1), sQ)

\* a WhereIn whose operator always has a single placeholder
WhereIn_OnePlaceholder(b, column, values) ==
    /\ Len(values) > 0 => Size(heap[b]) < MaxItems
    /\ IF Len(values) > 0
       THEN Configure("WhereIn", b,
              [heap[b] EXCEPT !.whereConds =
                 Append(@, WhereCondition(column, sINopen \o sQ \o sClose,
                                          ListV(values), sAND))])
       ELSE Configure("WhereIn", b, heap[b])

WhereIn(b, column, values) ==
    /\ Len(values) > 0 => Size(heap[b]) < MaxItems
    /\ IF Len(values) > 0
       THEN Configure("WhereIn", b,
              [heap[b] EXCEPT !.whereConds =
                 Append(@, WhereCondition(column,
                    sINopen \o Join(Placeholders(Len(values)), sComma) \o sClose,
                    ListV(values), sAND))])
       ELSE Configure("WhereIn", b, heap[b])

WhereNotNull(b, column) ==
    /\ Size(heap[b]) < MaxItems
    /\ Configure("WhereNotNull", b,
         [heap[b] EXCEPT !.whereConds =
             Append(@, WhereCondition(column, sIsNotNull, NilV, sAND))])

WhereNull(b, column) ==
    /\ Size(heap[b]) < MaxItems
    /\ Configure("WhereNull", b,
         [heap[b] EXCEPT !.whereConds =
             Append(@, WhereCondition(column, sIsNull, NilV, sAND))])

LeftJoin(b, table, condition) ==
    /\ Size(heap[b]) < MaxItems
    /\ Configure("LeftJoin", b,
         [heap[b] EXCEPT !.joins = Append(@, JoinCondition(sLEFT, table, condition))])

RightJoin(b, table, condition) ==
    /\ Size(heap[b]) < MaxItems
    /\ Configure("RightJoin", b,
         [heap[b] EXCEPT !.joins = Append(@, JoinCondition(sRIGHT, table, condition))])

InnerJoin(b, table, condition) ==
    /\ Size(heap[b]) < MaxItems
    /\ Configure("InnerJoin", b,
         [heap[b] EXCEPT !.joins = Append(@, JoinCondition(sINNER, table, condition))])

\* strings.ToUpper on one character (ASCII)
UpperChar(c) ==
    CASE c = "a" -> "A" [] c = "b" -> "B" [] c = "c" -> "C" [] c = "d" -> "D"
      [] c = "e" -> "E" [] c = "f" -> "F" [] c = "g" -> "G" [] c = "h" -> "H"
      [] c = "i" -> "I" [] c = "j" -> "J" [] c = "k" -> "K" [] c = "l" -> "L"
      [] c = "m" -> "M" [] c = "n" -> "N" [] c = "o" -> "O" [] c = "p" -> "P"
      [] c = "q" -> "Q" [] c = "r" -> "R" [] c = "s" -> "S" [] c = "t" -> "T"
      [] c = "u" -> "U" [] c = "v" -> "V" [] c = "w" -> "W" [] c = "x" -> "X"
      [] c = "y" -> "Y" [] c = "z" -> "Z"
      [] OTHER -> c

RECURSIVE ToUpper(_)
\* strings.ToUpper
ToUpper(s) ==
    IF Len(s) = 0 THEN <<>> ELSE <<UpperChar(s[1])>> \o ToUpper(Tail(s))

\* an OrderBy that keeps whatever direction it is given, upper-cased
OrderBy_NoFallback(b, column, direction) ==
    /\ Size(heap[b]) < MaxItems
    /\ Configure("OrderBy", b,
         [heap[b] EXCEPT !.orderBy =
             Append(@, OrderCondition(column, ToUpper(direction)))])

OrderBy(b, column, direction) ==
    /\ Size(heap[b]) < MaxItems
    /\ LET up == ToUpper(direction)
           dir == IF up # sASC /\ up # sDESC THEN sASC ELSE up
       IN Configure("OrderBy", b,
            [heap[b] EXCEPT !.orderBy = Append(@, OrderCondition(column, dir))])

GroupBy(b, columns) ==
    /\ Size(heap[b]) + Len(columns) <= MaxItems
    /\ Configure("GroupBy", b, [heap[b] EXCEPT !.groupBy = @ \o columns])

Having(b, column, operator, value) ==
    /\ Size(heap[b]) < MaxItems
    /\ Configure("Having", b,
         [heap[b] EXCEPT !.having =
             Append(@, WhereCondition(column, operator, value, sAND))])

Limit(b, limit) ==
    /\ b \in Alloc
    /\ Configure("Limit", b, [heap[b] EXCEPT !.limitVal = limit])

Offset(b, offset) ==
    /\ b \in Alloc
    /\ Configure("Offset", b, [heap[b] EXCEPT !.offsetVal = offset])

\* Go's int is a two's complement integer of 32 or 64 bits whose
\* arithmetic wraps around; the model keeps the wrap-around at IntBits bits
IntBits == 16
MaxInt == 2 ^ (IntBits - 1) - 1
MinInt == -(2 ^ (IntBits - 1))

\* the int that holds the mathematical result x
Wrap(x) == ((x - MinInt) % (2 ^ IntBits)) + MinInt

Paginate(b, page, perPage) ==
    /\ b \in Alloc
    /\ LET p == IF page < 1 THEN 1 ELSE page
           pp == IF perPage < 1 THEN 10 ELSE perPage
       IN Configure("Paginate", b,
             [heap[b] EXCEPT !.limitVal = pp,
                             !.offsetVal = Wrap((p - 1) * pp)])

(***************************************************************************)
(* Statement composition.                                                  *)
(***************************************************************************)
\* one iteration of the loop of buildWhereClause, for conditions[i]
WhereStep(acc, conditions, i) ==
    LET cond == conditions[i]
        t1 == IF i > 1 THEN acc.text \o sSp \o cond.Logic \o sSp ELSE acc.text
        t2 == t1 \o cond.Column \o sSp \o cond.Operator
    IN IF cond.Operator = sIsNull \/ cond.Operator = sIsNotNull
       THEN [text |-> t2, args |-> acc.args]
       ELSE IF Contains(cond.Operator, sIN)
       THEN [text |-> t2,
             args |-> IF cond.Value.k = "list"
                      THEN acc.args \o cond.Value.l
                      ELSE acc.args]
       ELSE [text |-> t2 \o sSpQ, args |-> Append(acc.args, cond.Value)]

RECURSIVE WhereLoop(_, _, _)
\* the loop of buildWhereClause from index i on
WhereLoop(acc, conditions, i) ==
    IF i > Len(conditions) THEN acc
    ELSE WhereLoop(WhereStep(acc, conditions, i), conditions, i + 1)

buildWhereClause(conditions) ==
    IF Len(conditions) = 0
    THEN [text |-> <<>>, args |-> <<>>]
    ELSE WhereLoop([text |-> <<>>, args |-> <<>>], conditions, 1)

RECURSIVE JoinsText(_)
\* the JOIN loop of buildSelectQuery
JoinsText(joins) ==
    IF Len(joins) = 0 THEN <<>>
    ELSE sSp \o joins[1].Type \o sJoin \o joins[1].Table \o sOn
           \o joins[1].Condition \o JoinsText(Tail(joins))

RECURSIVE OrderText(_, _)
\* the ORDER BY loop of buildSelectQuery from index i on
OrderText(orderBy, i) ==
    IF i > Len(orderBy) THEN <<>>
    ELSE (IF i > 1 THEN sCommaSp ELSE <<>>)
           \o orderBy[i].Column \o sSp \o orderBy[i].Dir
           \o OrderText(orderBy, i + 1)

\* the steps of buildSelectQuery on the builder record r; q is the text
\* written and the arguments collected so far
selectFrom(r) ==
    [text |-> sSelect \o Join(r.selectCols, sCommaSp) \o sFrom \o r.table,
     args |-> <<>>]

joinClauses(q, r) == [q EXCEPT !.text = @ \o JoinsText(r.joins)]

whereClause(q, r) ==
    IF Len(r.whereConds) > 0
    THEN LET w == buildWhereClause(r.whereConds)
         IN [text |-> q.text \o sWhere \o w.text, args |-> q.args \o w.args]
    ELSE q

groupByClause(q, r) ==
    IF Len(r.groupBy) > 0
    THEN [q EXCEPT !.text = @ \o sGroupBy \o Join(r.groupBy, sCommaSp)]
    ELSE q

havingClause(q, r) ==
    IF Len(r.having) > 0
    THEN LET h == buildWhereClause(r.having)
         IN [text |-> q.text \o sHaving \o h.text, args |-> q.args \o h.args]
    ELSE q

orderByClause(q, r) ==
    IF Len(r.orderBy) > 0
    THEN [q EXCEPT !.text = @ \o sOrderBy \o OrderText(r.orderBy, 1)]
    ELSE q

limitClause(q, r) ==
    IF r.limitVal > 0
    THEN [text |-> q.text \o sLimitQ, args |-> Append(q.args, IntV(r.limitVal))]
    ELSE q

offsetClause(q, r) ==
    IF r.offsetVal > 0
    THEN [text |-> q.text \o sOffsetQ, args |-> Append(q.args, IntV(r.offsetVal))]
    ELSE q

\* a composer that binds the limit before the HAVING arguments
buildSelectQuery_LimitArgEarly(r) ==
    LET q3 == groupByClause(whereClause(joinClauses(selectFrom(r), r), r), r)
        l  == limitClause(q3, r)
        h  == havingClause([q3 EXCEPT !.args = l.args], r)
        q5 == orderByClause(h, r)
        q6 == IF r.limitVal > 0 THEN [q5 EXCEPT !.text = @ \o sLimitQ] ELSE q5
    IN offsetClause(q6, r)

\* a composer that writes HAVING before GROUP BY
buildSelectQuery_HavingFirst(r) ==
    LET q2 == whereClause(joinClauses(selectFrom(r), r), r)
        q4 == groupByClause(havingClause(q2, r), r)
    IN offsetClause(limitClause(orderByClause(q4, r), r), r)

buildSelectQuery(r) ==
    LET q1 == joinClauses(selectFrom(r), r)
        q2 == whereClause(q1, r)
        q3 == groupByClause(q2, r)
        q4 == havingClause(q3, r)
        q5 == orderByClause(q4, r)
        q6 == limitClause(q5, r)
        q7 == offsetClause(q6, r)
    IN q7

(***************************************************************************)
(* Terminal operations.  The statement goes to the transaction when one is *)
(* bound (b.tx != nil) and to the connection otherwise; the executor's     *)
(* answer is an input (it succeeds or fails).                              *)
(***************************************************************************)
ExecErrs == {"", "exec failed"}

\* an executor choice that ignores the transaction
Route_BaseConnection(kind, r, sql, args) ==
    [kind |-> kind, sql |-> sql, args |-> args, tx |-> 0, db |-> r.db]

\* if b.tx != nil { b.tx.X(query, args...) } else { b.db.X(query, args...) }
Route(kind, r, sql, args) ==
    [kind |-> kind, sql |-> sql, args |-> args, tx |-> r.tx,
     db |-> IF r.tx # 0 THEN 0 ELSE r.db]

\* e is the error the executor answers with
Get(b, e) ==
    /\ b \in Alloc
    /\ LET q == buildSelectQuery(heap[b])
       IN exec' = Route("Query", heap[b], q.text, q.args)
    /\ ret' = Ret("Get", b, e)
    /\ UNCHANGED <<gsormOnce, gsormInstance, nb, heap, txs, wt, conc>>

First(b) ==
    /\ b \in Alloc
    /\ LET r == [heap[b] EXCEPT !.limitVal = 1]
           q == buildSelectQuery(r)
       IN /\ heap' = [heap EXCEPT ![b] = r]
          /\ exec' = Route("QueryRow", r, q.text, q.args)
    /\ ret' = Ret("First", b, "")
    /\ UNCHANGED <<gsormOnce, gsormInstance, nb, txs, wt, conc>>

\* a Count that leaves the count expression in the projection
Count_NoRestore(b, e) ==
    /\ b \in Alloc
    /\ LET r == [heap[b] EXCEPT !.selectCols = <<sCountExpr>>]
           q == buildSelectQuery(r)
       IN /\ heap' = [heap EXCEPT ![b] = r]
          /\ exec' = Route("QueryRow", r, q.text, q.args)
    /\ ret' = Ret("Count", b, e)
    /\ UNCHANGED <<gsormOnce, gsormInstance, nb, txs, wt, conc>>

Count(b, e) ==
    /\ b \in Alloc
    /\ LET originalCols == heap[b].selectCols
           r1 == [heap[b] EXCEPT !.selectCols = <<sCountExpr>>]
           q == buildSelectQuery(r1)
           r2 == [r1 EXCEPT !.selectCols = originalCols]
       IN /\ heap' = [heap EXCEPT ![b] = r2]
          /\ exec' = Route("QueryRow", r2, q.text, q.args)
    /\ ret' = Ret("Count", b, e)
    /\ UNCHANGED <<gsormOnce, gsormInstance, nb, txs, wt, conc>>

\* the common body of Sum, Max, Min and Avg: the projection is overwritten
\* with the aggregate expression and the SELECT is composed and executed
Aggregate(op, b, expr, e) ==
    /\ b \in Alloc
    /\ LET r == [heap[b] EXCEPT !.selectCols = <<expr>>]
           q == buildSelectQuery(r)
       IN /\ heap' = [heap EXCEPT ![b] = r]
          /\ exec' = Route("QueryRow", r, q.text, q.args)
    /\ ret' = Ret(op, b, e)
    /\ UNCHANGED <<gsormOnce, gsormInstance, nb, txs, wt, conc>>

Sum(b, column, e) ==
    Aggregate("Sum", b, sSumOpen \o column \o sSumClose, e)

Max(b, column, e) ==
    Aggregate("Max", b, sMaxOpen \o column \o sMaxClose, e)

Min(b, column, e) ==
    Aggregate("Min", b, sMinOpen \o column \o sMinClose, e)

Avg(b, column, e) ==
    Aggregate("Avg", b, sAvgOpen \o column \o sAvgClose, e)

(***************************************************************************)
(* Clone and the Set/DB singleton.                                         *)
(***************************************************************************)
\* the builder record Clone builds from the record r
CloneOf(r) ==
    [db |-> r.db, table |-> r.table, limitVal |-> r.limitVal,
     offsetVal |-> r.offsetVal, tx |-> r.tx,
     selectCols |-> IF Len(r.selectCols) > 0 THEN r.selectCols ELSE <<sStar>>,
     whereConds |-> IF Len(r.whereConds) > 0 THEN r.whereConds ELSE <<>>,
     joins |-> IF Len(r.joins) > 0 THEN r.joins ELSE <<>>,
     orderBy |-> IF Len(r.orderBy) > 0 THEN r.orderBy ELSE <<>>,
     groupBy |-> IF Len(r.groupBy) > 0 THEN r.groupBy ELSE <<>>,
     having |-> IF Len(r.having) > 0 THEN r.having ELSE <<>>,
     args |-> IF Len(r.args) > 0 THEN r.args ELSE <<>>]

\* c = b.Clone(): a new Builder object is allocated and returned
Clone(b) ==
    /\ b \in Alloc
    /\ nb < MaxBuilders
    /\ nb' = nb + 1
    /\ heap' = [heap EXCEPT ![nb + 1] = CloneOf(heap[b])]
    /\ ret' = Ret("Clone", nb + 1, "")
    /\ exec' = NoExec
    /\ UNCHANGED <<gsormOnce, gsormInstance, txs, wt, conc>>

\* Set(db): gsormOnce.Do creates the instance on the first call only; every
\* call returns the instance pointer itself
\* a Set that binds the instance to the connection of every call
Set_Rebind(db) ==
    /\ IF ~gsormOnce
       THEN /\ nb < MaxBuilders
            /\ nb' = nb + 1
            /\ heap' = [heap EXCEPT ![nb + 1] =
                          [ZeroBuilder EXCEPT !.db = db, !.selectCols = <<sStar>>]]
            /\ gsormInstance' = nb + 1
            /\ gsormOnce' = TRUE
       ELSE /\ heap' = [heap EXCEPT ![gsormInstance].db = db]
            /\ UNCHANGED <<nb, gsormInstance, gsormOnce>>
    /\ ret' = Ret("Set", gsormInstance', "")
    /\ exec' = NoExec
    /\ UNCHANGED <<txs, wt, conc>>

Set(db) ==
    /\ IF ~gsormOnce
       THEN /\ nb < MaxBuilders
            /\ nb' = nb + 1
            /\ heap' = [heap EXCEPT ![nb + 1] =
                          [ZeroBuilder EXCEPT !.db = db, !.selectCols = <<sStar>>]]
            /\ gsormInstance' = nb + 1
            /\ gsormOnce' = TRUE
       ELSE UNCHANGED <<nb, heap, gsormInstance, gsormOnce>>
    /\ ret' = Ret("Set", gsormInstance', "")
    /\ exec' = NoExec
    /\ UNCHANGED <<txs, wt, conc>>

\* a DB() that returns the instance itself
DB_ReturnsInstance ==
    /\ ret' = IF gsormInstance = 0 THEN Ret("DB", 0, "panic")
              ELSE Ret("DB", gsormInstance, "")
    /\ exec' = NoExec
    /\ UNCHANGED <<nb, heap, gsormOnce, gsormInstance, txs, wt, conc>>

\* DB(): panics when the instance is nil, otherwise returns a clone of it
DB ==
    /\ IF gsormInstance = 0
       THEN /\ ret' = Ret("DB", 0, "panic")
            /\ UNCHANGED <<nb, heap>>
       ELSE /\ nb < MaxBuilders
            /\ nb' = nb + 1
            /\ heap' = [heap EXCEPT ![nb + 1] = CloneOf(heap[gsormInstance])]
            /\ ret' = Ret("DB", nb + 1, "")
    /\ exec' = NoExec
    /\ UNCHANGED <<gsormOnce, gsormInstance, txs, wt, conc>>

(***************************************************************************)
(* Transactions.  txs[t] is the state of transaction t of the connection:  *)
(* "free" (not begun yet), "open", "committed", "rolledback", or "failed"  *)
(* (its Commit or Rollback returned a driver error).  Whether db.Begin,    *)
(* tx.Commit and tx.Rollback succeed is an input.                          *)
(***************************************************************************)
FreeTx(x) == {t \in TxIds : x[t] = "free"}

\* the transaction db.Begin() returns: the next one not begun yet
NewTx(x) == CHOOSE t \in FreeTx(x) : \A u \in FreeTx(x) : t <= u

\* the effect of BeginTransaction on (heap, txs) and the error it returns
beginTransaction(h, x, b, ok) ==
    IF ~ok
    THEN [heap |-> h, txs |-> x, err |-> "begin failed"]
    ELSE [heap |-> [h EXCEPT ![b].tx = NewTx(x)],
          txs |-> [x EXCEPT ![NewTx(x)] = "open"], err |-> ""]

\* tx.Commit() / tx.Rollback() of database/sql on transaction t: a finished
\* transaction answers ErrTxDone; an open one is finished either way
txFinish(x, t, ok, done) ==
    IF x[t] # "open"
    THEN [txs |-> x, err |-> "tx done"]
    ELSE IF ok THEN [txs |-> [x EXCEPT ![t] = done], err |-> ""]
    ELSE [txs |-> [x EXCEPT ![t] = "failed"], err |-> "driver error"]

\* a CommitTransaction that leaves the finished transaction on the builder
commitTransaction_KeepTx(h, x, b, ok) ==
    IF h[b].tx = 0
    THEN [heap |-> h, txs |-> x, err |-> "no active transaction", called |-> FALSE]
    ELSE LET f == txFinish(x, h[b].tx, ok, "committed")
         IN [heap |-> h, txs |-> f.txs, err |-> f.err, called |-> TRUE]

\* the effect of CommitTransaction; called tells whether tx.Commit() ran
commitTransaction(h, x, b, ok) ==
    IF h[b].tx = 0
    THEN [heap |-> h, txs |-> x, err |-> "no active transaction", called |-> FALSE]
    ELSE LET f == txFinish(x, h[b].tx, ok, "committed")
         IN [heap |-> [h EXCEPT ![b].tx = 0], txs |-> f.txs, err |-> f.err,
             called |-> TRUE]

\* the effect of RollbackTransaction; called tells whether tx.Rollback() ran
rollbackTransaction(h, x, b, ok) ==
    IF h[b].tx = 0
    THEN [heap |-> h, txs |-> x, err |-> "no active transaction", called |-> FALSE]
    ELSE LET f == txFinish(x, h[b].tx, ok, "rolledback")
         IN [heap |-> [h EXCEPT ![b].tx = 0], txs |-> f.txs, err |-> f.err,
             called |-> TRUE]

BeginTransaction(b) ==
    /\ b \in Alloc
    /\ \E ok \in BOOLEAN :
         /\ ok => FreeTx(txs) # {}
         /\ LET r == beginTransaction(heap, txs, b, ok)
            IN /\ heap' = r.heap
               /\ txs' = r.txs
               /\ ret' = Ret("BeginTransaction", b, r.err)
    /\ exec' = NoExec
    /\ UNCHANGED <<gsormOnce, gsormInstance, nb, wt, conc>>

\* wt after a tx.Commit() (kind "commits") or tx.Rollback() (kind
\* "rollbacks") call on transaction t: the calls on the transaction that a
\* WithTransaction in progress began are counted
NoteFinish(w, t, called, kind) ==
    IF w.pc = "fn" /\ called /\ t = w.began
    THEN IF kind = "commits" THEN [w EXCEPT !.commits = @ + 1]
         ELSE [w EXCEPT !.rollbacks = @ + 1]
    ELSE w

CommitTransaction(b) ==
    /\ b \in Alloc
    /\ \E ok \in BOOLEAN :
         LET r == commitTransaction(heap, txs, b, ok)
         IN /\ heap' = r.heap
            /\ txs' = r.txs
            /\ wt' = NoteFinish(wt, heap[b].tx, r.called, "commits")
            /\ ret' = Ret("CommitTransaction", b, r.err)
    /\ exec' = NoExec
    /\ UNCHANGED <<gsormOnce, gsormInstance, nb, conc>>

RollbackTransaction(b) ==
    /\ b \in Alloc
    /\ \E ok \in BOOLEAN :
         LET r == rollbackTransaction(heap, txs, b, ok)
         IN /\ heap' = r.heap
            /\ txs' = r.txs
            /\ wt' = NoteFinish(wt, heap[b].tx, r.called, "rollbacks")
            /\ ret' = Ret("RollbackTransaction", b, r.err)
    /\ exec' = NoExec
    /\ UNCHANGED <<gsormOnce, gsormInstance, nb, conc>>

(***************************************************************************)
(* WithTransaction(fn).  fn is the caller's code: between WithTransaction  *)
(* (the call, up to the invocation of fn) and WithTransactionReturn (fn    *)
(* has returned) the steps taken are the calls fn makes.  wt records the   *)
(* call in progress or the last call made: the receiver, the transaction   *)
(* it began, how often fn was invoked, what fn returned, whether the       *)
(* receiver was still bound to that open transaction when fn returned, how *)
(* often tx.Commit() and tx.Rollback() ran on that transaction during the  *)
(* call (by fn or by WithTransaction), the error of WithTransaction's      *)
(* rollback and the error it returned.  A WithTransaction                  *)
(* called by fn itself acts on the builder like BeginTransaction followed  *)
(* by a commit or rollback made by fn, which fn can do directly.           *)
(***************************************************************************)
FnErrs == {"", "fn failed"}

WithTransaction(b) ==
    /\ b \in Alloc
    /\ wt.pc # "fn"
    /\ \E ok \in BOOLEAN :
         /\ ok => FreeTx(txs) # {}
         /\ LET r == beginTransaction(heap, txs, b, ok)
            IN /\ heap' = r.heap
               /\ txs' = r.txs
               /\ IF r.err # ""
                  THEN /\ wt' = [NoWT EXCEPT !.pc = "done", !.b = b, !.err = r.err]
                       /\ ret' = Ret("WithTransaction", b, r.err)
                  ELSE /\ wt' = [NoWT EXCEPT !.pc = "fn", !.b = b,
                                    !.began = r.heap[b].tx, !.fnCalls = 1]
                       /\ ret' = Ret("fn", b, "")
    /\ exec' = NoExec
    /\ UNCHANGED <<gsormOnce, gsormInstance, nb, conc>>

\* a WithTransaction that commits whatever fn returned
WithTransactionReturn_CommitAlways ==
    /\ wt.pc = "fn"
    /\ \E e \in FnErrs, ok \in BOOLEAN :
         LET b == wt.b
             intact == heap[b].tx = wt.began /\ txs[wt.began] = "open"
             r == commitTransaction(heap, txs, b, ok)
         IN /\ heap' = r.heap
            /\ txs' = r.txs
            /\ wt' = [wt EXCEPT !.pc = "done",
                         !.fnRet = IF e # "" THEN "err" ELSE "nil",
                         !.intact = intact,
                         !.commits = IF r.called /\ heap[b].tx = wt.began
                                     THEN @ + 1 ELSE @,
                         !.err = IF e # "" THEN e ELSE r.err]
            /\ ret' = Ret("WithTransaction", b, IF e # "" THEN e ELSE r.err)
    /\ exec' = NoExec
    /\ UNCHANGED <<gsormOnce, gsormInstance, nb, conc>>

WithTransactionReturn ==
    /\ wt.pc = "fn"
    /\ \E e \in FnErrs, ok \in BOOLEAN :
         LET b == wt.b
             intact == heap[b].tx = wt.began /\ txs[wt.began] = "open"
         IN IF e # ""
            THEN LET r == rollbackTransaction(heap, txs, b, ok)
                 IN /\ heap' = r.heap
                    /\ txs' = r.txs
                    /\ wt' = [wt EXCEPT !.pc = "done", !.fnRet = "err",
                                 !.intact = intact,
                                 !.rollbacks = IF r.called /\ heap[b].tx = wt.began
                                               THEN @ + 1 ELSE @,
                                 !.rbErr = r.err, !.err = e]
                    /\ ret' = Ret("WithTransaction", b, e)
            ELSE LET r == commitTransaction(heap, txs, b, ok)
                 IN /\ heap' = r.heap
                    /\ txs' = r.txs
                    /\ wt' = [wt EXCEPT !.pc = "done", !.fnRet = "nil",
                                 !.intact = intact,
                                 !.commits = IF r.called /\ heap[b].tx = wt.began
                                             THEN @ + 1 ELSE @,
                                 !.err = r.err]
                    /\ ret' = Ret("WithTransaction", b, r.err)
    /\ exec' = NoExec
    /\ UNCHANGED <<gsormOnce, gsormInstance, nb, conc>>

(***************************************************************************)
(* Initial states.                                                         *)
(***************************************************************************)
RECURSIVE Repeat(_, _)
\* n copies of x
Repeat(n, x) == IF n = 0 THEN <<>> ELSE Append(Repeat(n - 1, x), x)

\* before Set has been called
InitEmpty ==
    /\ gsormOnce = FALSE
    /\ gsormInstance = 0
    /\ nb = 0
    /\ heap = Repeat(MaxBuilders, ZeroBuilder)
    /\ txs = Repeat(MaxTx, "free")
    /\ wt = NoWT
    /\ exec = NoExec
    /\ ret = Ret("none", 0, "")
    /\ conc = NoConc

\* after the first Set(db) with connection 1
InitSet ==
    /\ gsormOnce = TRUE
    /\ gsormInstance = 1
    /\ nb = 1
    /\ heap = [Repeat(MaxBuilders, ZeroBuilder) EXCEPT
                 ![1] = [ZeroBuilder EXCEPT !.db = 1, !.selectCols = <<sStar>>]]
    /\ txs = Repeat(MaxTx, "free")
    /\ wt = NoWT
    /\ exec = NoExec
    /\ ret = Ret("Set", 1, "")
    /\ conc = NoConc

(***************************************************************************)
(* Inputs: the caller's arguments, drawn from small sets.                  *)
(***************************************************************************)
cA == <<"a">>
cB == <<"b">>
cX == <<"x">>
cY == <<"y">>
cT == <<"t">>
cU == <<"u">>
opGt == <<">">>
opEq == <<"=">>
\* the raw ON condition "u.k = t.k"
onCond == <<"u",".","k"," ","="," ","t",".","k">>
\* a string value holding a quote and a question mark
vStr == StrV(<<"o","'","?">>)

\* (column, operator, value) arguments of Where, OrWhere and Having: plain
\* comparisons, the operator "IN" of the documented operator list with a
\* list and with a scalar, and operator texts carrying placeholders
WhereArgsRich ==
    { <<cX, opGt, IntV(5)>>,
      <<cY, opEq, vStr>>,
      <<cX, sIN, ListV(<<IntV(1), IntV(2)>>)>>,
      <<cX, sINopen \o sQ \o sComma \o sQ \o sClose, IntV(5)>>,
      <<cX, sINopen \o sQ \o sClose, ListV(<<IntV(1), IntV(2)>>)>>,
      <<cX, opEq, ListV(<<IntV(1)>>)>> }

WhereInArgs ==
    { <<cX, <<IntV(1), IntV(2), IntV(3)>>>>, <<cY, <<vStr>>>>, <<cX, <<>>>> }

\* the specification of the predicate serializer: Where, OrWhere, WhereIn,
\* WhereNull, WhereNotNull and Having in every order, then Get
NextWhere ==
    \/ \E a \in WhereArgsRich : Where(1, a[1], a[2], a[3])
    \/ \E a \in WhereArgsRich : OrWhere(1, a[1], a[2], a[3])
    \/ \E a \in WhereInArgs : WhereIn(1, a[1], a[2])
    \/ WhereNull(1, cY)
    \/ WhereNotNull(1, cY)
    \/ \E a \in WhereArgsRich : Having(1, a[1], a[2], a[3])
    \/ \E e \in ExecErrs : Get(1, e)

SpecWhere == InitSet /\ [][NextWhere]_vars

(***************************************************************************)
(* Claims.                                                                 *)
(***************************************************************************)
RECURSIVE IntendedArgs(_)
\* the values a predicate list is meant to bind, left to right: nothing for
\* a null check, the elements of a membership list, the value otherwise
IntendedArgs(conds) ==
    IF Len(conds) = 0 THEN <<>>
    ELSE LET c == conds[1]
         IN (IF c.Operator = sIsNull \/ c.Operator = sIsNotNull THEN <<>>
             ELSE IF Contains(c.Operator, sIN) /\ c.Value.k = "list" THEN c.Value.l
             ELSE <<c.Value>>)
            \o IntendedArgs(Tail(conds))

\* the serializer's result on a predicate list binds every placeholder
PlaceholdersBound(conds) ==
    LET w == buildWhereClause(conds)
    IN /\ CountQ(w.text) = Len(w.args)
       /\ w.args = IntendedArgs(conds)

\* C1: for every predicate list built with Where, OrWhere, WhereIn,
\* WhereNull, WhereNotNull and Having, the clause buildWhereClause returns
\* has as many '?' placeholders as the argument list has entries, and the
\* arguments are the intended values in placeholder order.
C1_PlaceholdersMatchArgs ==
    \A b \in Alloc :
        /\ PlaceholdersBound(heap[b].whereConds)
        /\ PlaceholdersBound(heap[b].having)

(***************************************************************************)
(* The specification of the SELECT composer: every configuration method,   *)
(* in every order, on one builder, then Get or First.                      *)
(***************************************************************************)
dirDescLower == <<"d","e","s","c">>
dirSideways == <<"s","i","d","e","w","a","y","s">>
cCountStar == <<"C","O","U","N","T","(","*",")">>

OrderDirs == {sASC, dirDescLower, dirSideways}

NextSelect ==
    \/ Table(1, cT)
    \/ Select(1, <<cA, cB>>)
    \/ Where(1, cX, opGt, IntV(5))
    \/ OrWhere(1, cY, opEq, vStr)
    \/ WhereIn(1, cX, <<IntV(1), IntV(2)>>)
    \/ WhereNull(1, cY)
    \/ WhereNotNull(1, cY)
    \/ LeftJoin(1, cU, onCond)
    \/ RightJoin(1, cU, onCond)
    \/ InnerJoin(1, cU, onCond)
    \/ \E d \in OrderDirs : OrderBy(1, cA, d)
    \/ GroupBy(1, <<cA>>)
    \/ Having(1, cCountStar, opGt, IntV(1))
    \/ \E n \in {10, -1} : Limit(1, n)
    \/ Offset(1, 10)
    \/ Paginate(1, 2, 10)
    \/ Get(1, "")
    \/ First(1)

SpecSelect == InitSet /\ [][NextSelect]_vars

\* the arguments a SELECT is meant to carry: WHERE arguments, HAVING
\* arguments, the limit when positive, the offset when positive
SelectArgs(r) ==
    buildWhereClause(r.whereConds).args
      \o buildWhereClause(r.having).args
      \o (IF r.limitVal > 0 THEN <<IntV(r.limitVal)>> ELSE <<>>)
      \o (IF r.offsetVal > 0 THEN <<IntV(r.offsetVal)>> ELSE <<>>)

\* C2: for every builder state, the argument list of buildSelectQuery is the
\* WHERE arguments, then the HAVING arguments, then the limit (only when
\* limit > 0), then the offset (only when offset > 0), and nothing else;
\* these are the arguments Get hands to the executor.
C2_SelectArgsOrder ==
    /\ \A b \in Alloc : buildSelectQuery(heap[b]).args = SelectArgs(heap[b])
    /\ ret.op = "Get" => exec.args = SelectArgs(heap[ret.b])

\* C2 witness: a Get whose statement carries a WHERE argument, a HAVING
\* argument, the limit and the offset.
C2_Witness ==
    /\ ret.op = "Get"
    /\ Len(heap[ret.b].whereConds) > 0
    /\ Len(heap[ret.b].having) > 0
    /\ heap[ret.b].limitVal > 0
    /\ heap[ret.b].offsetVal > 0
    /\ exec.args = <<IntV(5), IntV(1), IntV(10), IntV(10)>>

RECURSIVE Concat(_)
\* the concatenation of a sequence of texts
Concat(texts) ==
    IF Len(texts) = 0 THEN <<>> ELSE texts[1] \o Concat(Tail(texts))

\* the text before the optional clauses: projection, table, and one JOIN
\* clause per join in insertion order
SelectHead(r) ==
    sSelect \o Join(r.selectCols, sCommaSp) \o sFrom \o r.table
      \o Concat([i \in 1..Len(r.joins) |->
                   sSp \o r.joins[i].Type \o sJoin \o r.joins[i].Table
                       \o sOn \o r.joins[i].Condition])

\* the keywords of the optional clauses in SQL order, and whether the
\* builder record r asks for each
ClauseKeywords == <<sWhere, sGroupBy, sHaving, sOrderBy, sLimitQ, sOffsetQ>>

ClauseWanted(r) ==
    <<Len(r.whereConds) > 0, Len(r.groupBy) > 0, Len(r.having) > 0,
      Len(r.orderBy) > 0, r.limitVal > 0, r.offsetVal > 0>>

\* the text q starts with the head of r and continues with exactly the
\* wanted clauses, in SQL order
ClausesInOrder(q, r) ==
    LET head == SelectHead(r)
        rest == SubSeq(q, Len(head) + 1, Len(q))
        want == ClauseWanted(r)
        K == 1..Len(ClauseKeywords)
    IN /\ Len(q) >= Len(head)
       /\ SubSeq(q, 1, Len(head)) = head
       /\ \A i \in K : Contains(rest, ClauseKeywords[i]) <=> want[i]
       /\ \A i, j \in K :
            (i < j /\ want[i] /\ want[j])
               => Index(rest, ClauseKeywords[i]) < Index(rest, ClauseKeywords[j])
       /\ (\A i \in K : ~want[i]) => rest = <<>>
       /\ \A i \in K :
            (want[i] /\ \A j \in 1..(i - 1) : ~want[j])
               => Index(rest, ClauseKeywords[i]) = 1

sExampleSQL == <<"S","E","L","E","C","T"," ","a",","," ","b"," ","F","R","O","M"," ","t"," ","W","H","E","R","E"," ","x"," ",">"," ","?"," ","O","R","D","E","R"," ","B","Y"," ","a"," ","A","S","C"," ","L","I","M","I","T"," ","?">>

\* the builder record of the example: table t, Select(a, b), Where(x, >, 5),
\* OrderBy(a, ASC), Limit(10), whatever the order of the calls
IsExample(r) ==
    /\ r.table = cT
    /\ r.selectCols = <<cA, cB>>
    /\ r.whereConds = <<WhereCondition(cX, opGt, IntV(5), sAND)>>
    /\ r.orderBy = <<OrderCondition(cA, sASC)>>
    /\ r.limitVal = 10
    /\ r.offsetVal = 0
    /\ r.joins = <<>> /\ r.groupBy = <<>> /\ r.having = <<>>

\* C3: the SELECT text of every builder state is SELECT cols FROM table,
\* the JOINs in insertion order, then WHERE, GROUP BY, HAVING, ORDER BY,
\* LIMIT ?, OFFSET ? in this order, each present exactly when its list is
\* non-empty (LIMIT / OFFSET: when the value is greater than 0), whatever
\* the order of the configuration calls; the example builder gives exactly
\* 'SELECT a, b FROM t WHERE x > ? ORDER BY a ASC LIMIT ?' with args [5, 10].
C3_ClauseOrder ==
    \A b \in Alloc :
        LET q == buildSelectQuery(heap[b])
        IN /\ ClausesInOrder(q.text, heap[b])
           /\ IsExample(heap[b])
                => q.text = sExampleSQL /\ q.args = <<IntV(5), IntV(10)>>

\* C3 witness: Get has executed the example statement.
C3_Witness ==
    /\ ret.op = "Get"
    /\ IsExample(heap[ret.b])
    /\ exec.sql = sExampleSQL
    /\ exec.args = <<IntV(5), IntV(10)>>

(***************************************************************************)
(* The specification of Count and the aggregates: a builder is configured, *)
(* Count, Sum, Avg, Min and Max run on it (the executor succeeds or        *)
(* fails), and Get or First follows on the same builder.                   *)
(***************************************************************************)
NextAggregate ==
    \/ Table(1, cT)
    \/ \E cols \in {<<cA, cB>>, <<sStar>>} : Select(1, cols)
    \/ Where(1, cX, opGt, IntV(5))
    \/ GroupBy(1, <<cA>>)
    \/ Limit(1, 10)
    \/ \E e \in ExecErrs : Count(1, e)
    \/ \E e \in ExecErrs : Sum(1, cA, e)
    \/ \E e \in ExecErrs : Avg(1, cA, e)
    \/ \E e \in ExecErrs : Min(1, cA, e)
    \/ \E e \in ExecErrs : Max(1, cA, e)
    \/ Get(1, "")
    \/ First(1)

SpecAggregate == InitSet /\ [][NextAggregate]_vars

\* the text s starts with the text p
HasPrefix(s, p) == Len(s) >= Len(p) /\ SubSeq(s, 1, Len(p)) = p

\* the start of a SELECT that projects the columns cols
SelectOf(cols) == sSelect \o Join(cols, sCommaSp) \o sFrom

\* C5: Count() does not permanently alter the configured projection: the
\* statement it executes selects the count expression, the projection after
\* the call (success or error) equals the projection before it, and a Get()
\* that follows on the same builder selects the configured columns.
C5_CountRestoresProjection ==
    [][/\ ret'.op = "Count"
          => /\ heap'[ret'.b].selectCols = heap[ret'.b].selectCols
             /\ HasPrefix(exec'.sql, SelectOf(<<sCountExpr>>))
       /\ (ret.op = "Count" /\ ret'.op = "Get" /\ ret'.b = ret.b)
          => /\ HasPrefix(exec'.sql, SelectOf(heap[ret.b].selectCols))
             /\ ~HasPrefix(exec'.sql, SelectOf(<<sCountExpr>>))]_vars

\* C5 witness: a Count whose executor failed, on a builder configured with
\* Select(a, b), has executed the count statement and left the projection.
C5_Witness ==
    /\ ret.op = "Count"
    /\ ret.err # ""
    /\ heap[ret.b].selectCols = <<cA, cB>>
    /\ HasPrefix(exec.sql, SelectOf(<<sCountExpr>>))

AggregateOps == {"Sum", "Avg", "Min", "Max"}

\* the aggregate expressions over column a
AggregateExprs ==
    { sSumOpen \o cA \o sSumClose, sAvgOpen \o cA \o sAvgClose,
      sMinOpen \o cA \o sMinClose, sMaxOpen \o cA \o sMaxClose }

\* C6: Sum, Avg, Min and Max restore the configured projection: after the
\* call the projection equals the projection before it, and a Get() that
\* follows on the same builder selects the configured columns.
C6_AggregatesRestoreProjection ==
    [][/\ ret'.op \in AggregateOps
          => heap'[ret'.b].selectCols = heap[ret'.b].selectCols
       /\ (ret.op \in AggregateOps /\ ret'.op = "Get" /\ ret'.b = ret.b)
          => \A x \in AggregateExprs : ~HasPrefix(exec'.sql, SelectOf(<<x>>))]_vars

(***************************************************************************)
(* The specification of the singleton and of Clone: Set and DB hand out    *)
(* builders, Clone copies them, and the callers configure every builder    *)
(* they hold, in every order.                                              *)
(***************************************************************************)
\* cap on the amount of configuration held by all builders together
MaxWeight == 2

\* the amount of configuration a builder record holds: its list entries
\* and its scalar settings that differ from a fresh builder's
Weight(r) ==
    Size(r) + (IF r.table # <<>> THEN 1 ELSE 0)
            + (IF r.selectCols # <<sStar>> THEN 1 ELSE 0)
            + (IF r.limitVal # 0 THEN 1 ELSE 0)
            + (IF r.offsetVal # 0 THEN 1 ELSE 0)

RECURSIVE TotalWeight(_, _)
\* the weight of the builders 1..n of the heap h
TotalWeight(h, n) ==
    IF n = 0 THEN 0 ELSE Weight(h[n]) + TotalWeight(h, n - 1)

\* the step stays within the cap on the configuration held
WithinWeight == TotalWeight(heap', nb') <= MaxWeight

NextClone ==
    \/ Set(1)
    \/ DB /\ WithinWeight
    \/ \E b \in BuilderIds : Clone(b) /\ WithinWeight
    \/ \E b \in BuilderIds : Table(b, cT) /\ WithinWeight
    \/ \E b \in BuilderIds, cols \in {<<>>, <<cA>>} :
          Select(b, cols) /\ WithinWeight
    \/ \E b \in BuilderIds : Where(b, cX, opGt, IntV(5)) /\ WithinWeight
    \/ \E b \in BuilderIds : OrWhere(b, cY, opEq, vStr) /\ WithinWeight
    \/ \E b \in BuilderIds :
          WhereIn(b, cX, <<IntV(1), IntV(2)>>) /\ WithinWeight
    \/ \E b \in BuilderIds : WhereNull(b, cY) /\ WithinWeight
    \/ \E b \in BuilderIds : WhereNotNull(b, cY) /\ WithinWeight
    \/ \E b \in BuilderIds : LeftJoin(b, cU, onCond) /\ WithinWeight
    \/ \E b \in BuilderIds : RightJoin(b, cU, onCond) /\ WithinWeight
    \/ \E b \in BuilderIds : InnerJoin(b, cU, onCond) /\ WithinWeight
    \/ \E b \in BuilderIds : OrderBy(b, cA, dirDescLower) /\ WithinWeight
    \/ \E b \in BuilderIds : GroupBy(b, <<cA>>) /\ WithinWeight
    \/ \E b \in BuilderIds :
          Having(b, cCountStar, opGt, IntV(1)) /\ WithinWeight
    \/ \E b \in BuilderIds : Limit(b, 10) /\ WithinWeight
    \/ \E b \in BuilderIds : Offset(b, 10) /\ WithinWeight
    \/ \E b \in BuilderIds : Paginate(b, 2, 10) /\ WithinWeight

SpecClone == InitEmpty /\ [][NextClone]_vars

\* the configuration of a builder record: everything but the connection,
\* the transaction and the unused args field
Config(r) ==
    [table |-> r.table, selectCols |-> r.selectCols,
     whereConds |-> r.whereConds, joins |-> r.joins, orderBy |-> r.orderBy,
     groupBy |-> r.groupBy, having |-> r.having, limitVal |-> r.limitVal,
     offsetVal |-> r.offsetVal]

ConfigOps ==
    {"Table", "Select", "Where", "OrWhere", "WhereIn", "WhereNull",
     "WhereNotNull", "LeftJoin", "RightJoin", "InnerJoin", "OrderBy",
     "GroupBy", "Having", "Limit", "Offset", "Paginate"}

\* C4: clone independence: immediately after c = b.Clone() the two builders
\* have equal configuration, and every configuration call applied to one
\* builder leaves the table, projection, predicates, joins, ordering,
\* grouping, having, limit and offset of every other builder unchanged.
C4_CloneIndependence ==
    [][/\ \A b \in BuilderIds :
            Clone(b) => Config(heap'[ret'.b]) = Config(heap[b])
       /\ \A x \in Alloc :
            (ret'.op \in ConfigOps /\ ret'.b # x)
               => Config(heap'[x]) = Config(heap[x])]_vars

\* the configuration of a fresh builder: projection ['*'] and nothing else
FreshConfig == Config([ZeroBuilder EXCEPT !.selectCols = <<sStar>>])

\* C7: the builder returned by DB() is fresh: whatever was called on the
\* builders returned earlier by Set() or DB(), it has projection ['*'] and
\* no table, predicate, join, ordering, grouping, having, limit, offset or
\* active transaction.
C7_DBReturnsFresh ==
    (ret.op = "DB" /\ ret.err = "")
        => /\ Config(heap[ret.b]) = FreshConfig
           /\ heap[ret.b].tx = 0

(***************************************************************************)
(* The specification of the transaction helpers: BeginTransaction,         *)
(* CommitTransaction, RollbackTransaction, WithTransaction and Get on the *)
(* builder returned by Set; the calls made while WithTransaction is in     *)
(* progress are the calls of fn.                                           *)
(***************************************************************************)
NextTx ==
    \/ \E b \in BuilderIds : BeginTransaction(b)
    \/ \E b \in BuilderIds : CommitTransaction(b)
    \/ \E b \in BuilderIds : RollbackTransaction(b)
    \/ \E b \in BuilderIds : WithTransaction(b)
    \/ WithTransactionReturn
    \/ \E b \in BuilderIds, e \in ExecErrs : Get(b, e)

SpecTx == InitSet /\ [][NextTx]_vars

\* C8: BeginTransaction on a builder whose transaction is active returns an
\* error, begins no nested or replacement transaction and leaves the active
\* transaction bound to the builder.
C8_NoSecondBegin ==
    [][(ret'.op = "BeginTransaction" /\ heap[ret'.b].tx # 0)
          => /\ ret'.err # ""
             /\ heap'[ret'.b].tx = heap[ret'.b].tx
             /\ txs' = txs]_vars

\* fn is invoked exactly when beginning succeeded, once, with the builder
\* bound to the transaction just begun
FnCalledOnce ==
    /\ (wt.pc = "done" /\ wt.began = 0) => wt.fnCalls = 0 /\ wt.fnRet = "none"
    /\ (wt.pc # "idle" /\ wt.began # 0) => wt.fnCalls = 1
    /\ ret.op = "fn" => heap[wt.b].tx = wt.began /\ txs[wt.began] = "open"

\* WithTransaction has returned after fn returned: the builder is idle
IdleAtReturn ==
    (ret.op = "WithTransaction" /\ wt.fnRet # "none") => heap[wt.b].tx = 0

\* after fn returned nil the transaction was committed once and not rolled
\* back; after fn returned an error it was rolled back once and not committed
FinishedOnce ==
    /\ wt.fnRet = "nil" => wt.commits = 1 /\ wt.rollbacks = 0
    /\ wt.fnRet = "err" => wt.rollbacks = 1 /\ wt.commits = 0

\* C9 as stated: WithTransaction(fn) begins a transaction, calls fn once
\* with the builder bound to it, then commits exactly once with no rollback
\* if fn returned nil, or rolls back exactly once with no commit if fn
\* returned an error; when it returns the builder is idle; if beginning
\* fails fn is never called.
C9_Original ==
    /\ FnCalledOnce
    /\ IdleAtReturn
    /\ wt.pc = "done" => FinishedOnce

\* C9 amended: as C9, with the commit / rollback count holding when fn left
\* the builder bound to the still-open transaction WithTransaction began
\* (fn did not itself begin, commit or roll back on the builder).
C9_WithTransaction ==
    /\ FnCalledOnce
    /\ IdleAtReturn
    /\ (wt.pc = "done" /\ wt.intact) => FinishedOnce

\* C9 witness: WithTransaction has returned after fn, which left the
\* transaction alone, returned an error, and the one rollback was made.
C9_Witness ==
    /\ ret.op = "WithTransaction"
    /\ wt.pc = "done" /\ wt.intact /\ wt.fnRet = "err"
    /\ wt.rollbacks = 1 /\ wt.commits = 0
    /\ heap[wt.b].tx = 0
    /\ txs[wt.began] = "rolledback"

\* the errors the caller can inspect in the value WithTransaction returned
ReturnedErrors == {wt.err} \ {""}

\* C10: when fn fails, WithTransaction returns fn's own error, and when the
\* rollback also fails its error is reported alongside, never dropped.
C10_RollbackErrorReported ==
    (wt.pc = "done" /\ wt.fnRet = "err")
        => /\ "fn failed" \in ReturnedErrors
           /\ wt.rbErr # "" => wt.rbErr \in ReturnedErrors

\* the two operations that end a transaction
FinishOps == {"CommitTransaction", "RollbackTransaction"}

\* C11: CommitTransaction and RollbackTransaction on a builder with no
\* active transaction return 'no active transaction', run no commit or
\* rollback and leave the builder unchanged; with an active transaction
\* they clear it, so a second commit or rollback in a row returns that error.
C11_FinishWithoutTransaction ==
    [][/\ (ret'.op \in FinishOps /\ heap[ret'.b].tx = 0)
            => /\ ret'.err = "no active transaction"
               /\ heap' = heap
               /\ txs' = txs
       /\ (ret'.op \in FinishOps /\ heap[ret'.b].tx # 0)
            => /\ heap'[ret'.b].tx = 0
               /\ txs'[heap[ret'.b].tx] # "open"
               /\ ret'.err # "no active transaction"
       /\ (ret.op \in FinishOps /\ ret'.op \in FinishOps /\ ret'.b = ret.b)
            => ret'.err = "no active transaction"]_vars

\* C11 witness: after a transaction was committed, a rollback on the same
\* builder found no active transaction.
C11_Witness ==
    /\ ret.op = "RollbackTransaction"
    /\ ret.err = "no active transaction"
    /\ heap[ret.b].tx = 0
    /\ \E t \in TxIds : txs[t] = "committed"

(***************************************************************************)
(* Writing operations.  A map[string]interface{} is a set of entries       *)
(* [k |-> column, v |-> value] with distinct keys; ranging over a map      *)
(* visits its keys in an order the runtime chooses.                        *)
(***************************************************************************)
sInsertInto == <<"I","N","S","E","R","T"," ","I","N","T","O"," ">>
sSpOpen == <<" ","(">>
sValues == <<")"," ","V","A","L","U","E","S"," ">>
sValuesOpen == <<")"," ","V","A","L","U","E","S"," ","(">>
sOpen == <<"(">>
sUpdate == <<"U","P","D","A","T","E"," ">>
sSet == <<" ","S","E","T"," ">>
sEqQ == <<" ","="," ","?">>
sCase == <<" ","="," ","C","A","S","E"," ">>
sWhenThen == <<" ","W","H","E","N"," ","?"," ","T","H","E","N"," ","?">>
sElse == <<" ","E","L","S","E"," ">>
sEnd == <<" ","E","N","D">>
sSpInOpen == <<" ","I","N"," ","(">>
sDeleteFrom == <<"D","E","L","E","T","E"," ","F","R","O","M"," ">>
sOnDuplicate == <<" ","O","N"," ","D","U","P","L","I","C","A","T","E"," ","K","E","Y"," ","U","P","D","A","T","E"," ">>
sEqValues == <<" ","="," ","V","A","L","U","E","S","(">>

\* the keys of the map m
Keys(m) == {p.k : p \in m}

\* m[k]: the value stored under k, the nil interface when k is absent
MapGet(m, k) ==
    IF k \in Keys(m) THEN (CHOOSE p \in m : p.k = k).v ELSE NilV

RECURSIVE RangeOrders(_)
\* the orders in which a range loop can visit the keys S of a map
RangeOrders(S) ==
    IF S = {} THEN {<<>>}
    ELSE UNION {{<<x>> \o o : o \in RangeOrders(S \ {x})} : x \in S}

RECURSIVE RowValues(_, _)
\* row[col] for each col of columns, in order
RowValues(row, columns) ==
    IF Len(columns) = 0 THEN <<>>
    ELSE <<MapGet(row, Head(columns))>> \o RowValues(row, Tail(columns))

RECURSIVE Reverse(_)
Reverse(q) == IF Len(q) = 0 THEN <<>> ELSE Append(Reverse(Tail(q)), Head(q))

\* an Insert that binds the values in the opposite order of the columns
insertQuery_Reversed(r, data, columns) ==
    [text |-> sInsertInto \o r.table \o sSpOpen \o Join(columns, sCommaSp)
                \o sValuesOpen \o Join(Placeholders(Len(columns)), sCommaSp)
                \o sClose,
     args |-> RowValues(data, Reverse(columns))]

\* the statement Insert composes when the range loop visits the keys of
\* data in the order columns
insertQuery(r, data, columns) ==
    [text |-> sInsertInto \o r.table \o sSpOpen \o Join(columns, sCommaSp)
                \o sValuesOpen \o Join(Placeholders(Len(columns)), sCommaSp)
                \o sClose,
     args |-> RowValues(data, columns)]

\* e is the error the executor answers with
Insert(b, data, e) ==
    /\ b \in Alloc
    /\ \E columns \in RangeOrders(Keys(data)) :
         LET q == insertQuery(heap[b], data, columns)
         IN exec' = Route("Exec", heap[b], q.text, q.args)
    /\ ret' = RetIn("Insert", b, e, <<data>>)
    /\ UNCHANGED <<gsormOnce, gsormInstance, nb, heap, txs, wt, conc>>

RECURSIVE ValuesText(_, _, _)
\* the VALUES loop of InsertBulk from row i on: one "(?, ..., ?)" group
\* per row
ValuesText(data, columns, i) ==
    IF i > Len(data) THEN <<>>
    ELSE (IF i > 1 THEN sCommaSp ELSE <<>>)
           \o sOpen \o Join(Placeholders(Len(columns)), sCommaSp) \o sClose
           \o ValuesText(data, columns, i + 1)

RECURSIVE AllValues(_, _)
\* the allValues slice of InsertBulk: row[col] for every row, in the order
\* of columns
AllValues(data, columns) ==
    IF Len(data) = 0 THEN <<>>
    ELSE RowValues(Head(data), columns) \o AllValues(Tail(data), columns)

\* an InsertBulk that binds the values of each row in the opposite order
\* of the column list
insertBulkQuery_Reversed(r, data, columns) ==
    [text |-> sInsertInto \o r.table \o sSpOpen \o Join(columns, sCommaSp)
                \o sValues \o ValuesText(data, columns, 1),
     args |-> AllValues(data, Reverse(columns))]

\* the statement InsertBulk composes for a non-empty data when the range
\* loop visits the keys of the first row in the order columns
insertBulkQuery(r, data, columns) ==
    [text |-> sInsertInto \o r.table \o sSpOpen \o Join(columns, sCommaSp)
                \o sValues \o ValuesText(data, columns, 1),
     args |-> AllValues(data, columns)]

\* an InsertBulk without the early return on an empty list
InsertBulk_NoEarlyReturn(b, data, e) ==
    /\ b \in Alloc
    /\ \E columns \in RangeOrders(IF Len(data) = 0 THEN {} ELSE Keys(data[1])) :
         LET q == insertBulkQuery(heap[b], data, columns)
         IN exec' = Route("Exec", heap[b], q.text, q.args)
    /\ ret' = RetIn("InsertBulk", b, e, <<data>>)
    /\ UNCHANGED <<gsormOnce, gsormInstance, nb, heap, txs, wt, conc>>

InsertBulk(b, data, e) ==
    /\ b \in Alloc
    /\ IF Len(data) = 0
       THEN /\ e = ""
            /\ exec' = NoExec
            /\ ret' = RetIn("InsertBulk", b, "", <<data>>)
       ELSE /\ \E columns \in RangeOrders(Keys(data[1])) :
                 LET q == insertBulkQuery(heap[b], data, columns)
                 IN exec' = Route("Exec", heap[b], q.text, q.args)
            /\ ret' = RetIn("InsertBulk", b, e, <<data>>)
    /\ UNCHANGED <<gsormOnce, gsormInstance, nb, heap, txs, wt, conc>>

RECURSIVE SetClauses(_)
\* the setClauses of Update: col + " = ?" for each visited column
SetClauses(columns) ==
    IF Len(columns) = 0 THEN <<>>
    ELSE <<Head(columns) \o sEqQ>> \o SetClauses(Tail(columns))

\* "WHERE ..." and its arguments when the builder has conditions
whereSuffix(r) ==
    IF Len(r.whereConds) > 0
    THEN LET w == buildWhereClause(r.whereConds)
         IN [text |-> sWhere \o w.text, args |-> w.args]
    ELSE [text |-> <<>>, args |-> <<>>]

\* the statement Update composes when the range loop visits the keys of
\* data in the order columns
updateQuery(r, data, columns) ==
    LET w == whereSuffix(r)
    IN [text |-> sUpdate \o r.table \o sSet
                   \o Join(SetClauses(columns), sCommaSp) \o w.text,
        args |-> RowValues(data, columns) \o w.args]

Update(b, data, e) ==
    /\ b \in Alloc
    /\ \E columns \in RangeOrders(Keys(data)) :
         LET q == updateQuery(heap[b], data, columns)
         IN exec' = Route("Exec", heap[b], q.text, q.args)
    /\ ret' = RetIn("Update", b, e, <<data>>)
    /\ UNCHANGED <<gsormOnce, gsormInstance, nb, heap, txs, wt, conc>>

RECURSIVE bulkColumns(_, _)
\* the columns map of UpdateBulk: every key of every row but keyColumn
bulkColumns(updates, keyColumn) ==
    IF Len(updates) = 0 THEN {}
    ELSE (Keys(Head(updates)) \ {keyColumn})
           \cup bulkColumns(Tail(updates), keyColumn)

RECURSIVE WhenThens(_)
\* " WHEN ? THEN ?" once per row
WhenThens(n) == IF n = 0 THEN <<>> ELSE WhenThens(n - 1) \o sWhenThen

RECURSIVE caseArgs(_, _, _)
\* the arguments of one CASE clause: update[keyColumn], update[col] for
\* every row
caseArgs(updates, keyColumn, col) ==
    IF Len(updates) = 0 THEN <<>>
    ELSE <<MapGet(Head(updates), keyColumn), MapGet(Head(updates), col)>>
           \o caseArgs(Tail(updates), keyColumn, col)

\* col = CASE keyColumn WHEN ? THEN ? ... ELSE col END
caseClause(updates, keyColumn, col) ==
    col \o sCase \o keyColumn \o WhenThens(Len(updates)) \o sElse \o col
        \o sEnd

RECURSIVE bulkSet(_, _, _)
\* the loop over the columns map, visited in the order columns: the SET
\* clauses and their arguments
bulkSet(updates, keyColumn, columns) ==
    IF Len(columns) = 0 THEN [clauses |-> <<>>, args |-> <<>>]
    ELSE LET rest == bulkSet(updates, keyColumn, Tail(columns))
         IN [clauses |-> <<caseClause(updates, keyColumn, Head(columns))>>
                           \o rest.clauses,
             args |-> caseArgs(updates, keyColumn, Head(columns))
                        \o rest.args]

RECURSIVE keyValues(_, _)
\* keyValues[i] = updates[i][keyColumn]
keyValues(updates, keyColumn) ==
    IF Len(updates) = 0 THEN <<>>
    ELSE <<MapGet(Head(updates), keyColumn)>>
           \o keyValues(Tail(updates), keyColumn)

\* an UpdateBulk that binds the IN-list keys before the SET arguments
updateBulkQuery_KeysFirst(r, updates, keyColumn, columns) ==
    LET set == bulkSet(updates, keyColumn, columns)
    IN [text |-> sUpdate \o r.table \o sSet \o Join(set.clauses, sCommaSp)
                   \o sWhere \o keyColumn \o sSpInOpen
                   \o Join(Placeholders(Len(updates)), sCommaSp) \o sClose,
        args |-> keyValues(updates, keyColumn) \o set.args]

\* the statement UpdateBulk composes for a non-empty updates when the
\* range loop visits the columns map in the order columns
updateBulkQuery(r, updates, keyColumn, columns) ==
    LET set == bulkSet(updates, keyColumn, columns)
    IN [text |-> sUpdate \o r.table \o sSet \o Join(set.clauses, sCommaSp)
                   \o sWhere \o keyColumn \o sSpInOpen
                   \o Join(Placeholders(Len(updates)), sCommaSp) \o sClose,
        args |-> set.args \o keyValues(updates, keyColumn)]

UpdateBulk(b, updates, keyColumn, e) ==
    /\ b \in Alloc
    /\ IF Len(updates) = 0
       THEN /\ e = ""
            /\ exec' = NoExec
            /\ ret' = RetIn("UpdateBulk", b, "", <<updates, keyColumn>>)
       ELSE /\ \E columns \in RangeOrders(bulkColumns(updates, keyColumn)) :
                 LET q == updateBulkQuery(heap[b], updates, keyColumn, columns)
                 IN exec' = Route("Exec", heap[b], q.text, q.args)
            /\ ret' = RetIn("UpdateBulk", b, e, <<updates, keyColumn>>)
    /\ UNCHANGED <<gsormOnce, gsormInstance, nb, heap, txs, wt, conc>>

\* the statement Delete composes
deleteQuery(r) ==
    LET w == whereSuffix(r)
    IN [text |-> sDeleteFrom \o r.table \o w.text, args |-> w.args]

Delete(b, e) ==
    /\ b \in Alloc
    /\ LET q == deleteQuery(heap[b])
       IN exec' = Route("Exec", heap[b], q.text, q.args)
    /\ ret' = Ret("Delete", b, e)
    /\ UNCHANGED <<gsormOnce, gsormInstance, nb, heap, txs, wt, conc>>

RECURSIVE updateClauses_All(_, _)
\* an update clause for every visited column, conflict column or not
updateClauses_All(columns, conflictColumns) ==
    IF Len(columns) = 0 THEN <<>>
    ELSE <<Head(columns) \o sEqValues \o Head(columns) \o sClose>>
           \o updateClauses_All(Tail(columns), conflictColumns)

RECURSIVE updateClauses(_, _)
\* col = VALUES(col) for every visited column that is not a conflict column
updateClauses(columns, conflictColumns) ==
    IF Len(columns) = 0 THEN <<>>
    ELSE (IF \E i \in 1..Len(conflictColumns) : conflictColumns[i] = Head(columns)
          THEN <<>>
          ELSE <<Head(columns) \o sEqValues \o Head(columns) \o sClose>>)
           \o updateClauses(Tail(columns), conflictColumns)

\* the statement CreateOrUpdate composes when the range loop visits the
\* keys of data in the order columns
createOrUpdateQuery(r, data, conflictColumns, columns) ==
    [text |-> sInsertInto \o r.table \o sSpOpen \o Join(columns, sCommaSp)
                \o sValuesOpen \o Join(Placeholders(Len(columns)), sCommaSp)
                \o sClose \o sOnDuplicate
                \o Join(updateClauses(columns, conflictColumns), sCommaSp),
     args |-> RowValues(data, columns)]

CreateOrUpdate(b, data, conflictColumns, e) ==
    /\ b \in Alloc
    /\ \E columns \in RangeOrders(Keys(data)) :
         LET q == createOrUpdateQuery(heap[b], data, conflictColumns, columns)
         IN exec' = Route("Exec", heap[b], q.text, q.args)
    /\ ret' = RetIn("CreateOrUpdate", b, e, <<data, conflictColumns>>)
    /\ UNCHANGED <<gsormOnce, gsormInstance, nb, heap, txs, wt, conc>>

\* ToArray runs Get and reads the rows; e is the error of Get, of
\* rows.Columns() or of rows.Scan()
ToArray(b, e) ==
    /\ b \in Alloc
    /\ LET q == buildSelectQuery(heap[b])
       IN exec' = Route("Query", heap[b], q.text, q.args)
    /\ ret' = Ret("ToArray", b, e)
    /\ UNCHANGED <<gsormOnce, gsormInstance, nb, heap, txs, wt, conc>>

(***************************************************************************)
(* Inputs of the writing operations.                                       *)
(***************************************************************************)
cId == <<"i","d">>
cSalary == <<"s","a","l","a","r","y">>
cName == <<"n","a","m","e">>

\* {id: 1, salary: 100} and {id: 2, salary: 200}
rowOne == {[k |-> cId, v |-> IntV(1)], [k |-> cSalary, v |-> IntV(100)]}
rowTwo == {[k |-> cId, v |-> IntV(2)], [k |-> cSalary, v |-> IntV(200)]}

\* the terminal operations, on one builder, with BeginTransaction,
\* CommitTransaction and RollbackTransaction
NextExec ==
    \/ Table(1, cT)
    \/ \E b \in BuilderIds : BeginTransaction(b)
    \/ \E b \in BuilderIds : CommitTransaction(b)
    \/ \E b \in BuilderIds : RollbackTransaction(b)
    \/ \E e \in ExecErrs : Get(1, e)
    \/ First(1)
    \/ Count(1, "")
    \/ \E e \in ExecErrs : Insert(1, rowOne, e)
    \/ InsertBulk(1, <<rowOne, rowTwo>>, "")
    \/ Update(1, rowOne, "")
    \/ UpdateBulk(1, <<rowOne, rowTwo>>, cId, "")
    \/ Delete(1, "")
    \/ CreateOrUpdate(1, rowOne, <<cId>>, "")
    \/ Sum(1, cA, "")
    \/ Avg(1, cA, "")
    \/ Min(1, cA, "")
    \/ Max(1, cA, "")
    \/ ToArray(1, "")

SpecExec == InitSet /\ [][NextExec]_vars

TerminalOps ==
    {"Get", "First", "Count", "Insert", "InsertBulk", "Update", "UpdateBulk",
     "Delete", "CreateOrUpdate", "Sum", "Avg", "Min", "Max", "ToArray"}

\* the transactions the driver has begun
Begun == {t \in TxIds : txs[t] # "free"}

\* the transaction active on the one builder, by the driver's account: the
\* one begun last, while it has not been committed or rolled back
ActiveTx ==
    IF Begun = {} THEN 0
    ELSE LET last == CHOOSE t \in Begun : \A u \in Begun : u <= t
         IN IF txs[last] = "open" THEN last ELSE 0

\* C12: while a transaction is active on a builder every terminal
\* operation executes on that transaction; after CommitTransaction or
\* RollbackTransaction and before any BeginTransaction every terminal
\* operation executes on the base connection.
C12_RoutesThroughTransaction ==
    (ret.op \in TerminalOps /\ exec.kind # "none")
        => IF ActiveTx # 0
           THEN exec.tx = ActiveTx /\ exec.db = 0
           ELSE exec.tx = 0 /\ exec.db = heap[ret.b].db

\* C12 witness: a transaction was rolled back, a second one was begun and
\* UpdateBulk executed on it.
C12_Witness ==
    /\ ret.op = "UpdateBulk"
    /\ txs[1] = "rolledback"
    /\ txs[2] = "open"
    /\ exec.tx = 2

(***************************************************************************)
(* The bulk operations on batches of complete rows, of a row that carries   *)
(* another column and no salary, and of a row without id.                  *)
(***************************************************************************)
\* {id: 3, name: "n"} and {salary: 300}
rowName == {[k |-> cId, v |-> IntV(3)], [k |-> cName, v |-> StrV(<<"n">>)]}
rowNoKey == {[k |-> cSalary, v |-> IntV(300)]}

\* the batches: empty, complete, and with the incomplete row first or last
Batches ==
    { <<>>, <<rowOne>>, <<rowName>>, <<rowOne, rowTwo>>, <<rowTwo, rowOne>>,
      <<rowOne, rowName>>, <<rowName, rowOne>>,
      <<rowOne, rowNoKey>>, <<rowNoKey, rowOne>>,
      <<rowOne, rowTwo, rowName>> }

NextBulk ==
    \/ Table(1, cT)
    \/ \E b \in BuilderIds : BeginTransaction(b)
    \/ \E b \in BuilderIds : CommitTransaction(b)
    \/ \E data \in Batches, e \in ExecErrs : InsertBulk(1, data, e)
    \/ \E updates \in Batches, e \in ExecErrs : UpdateBulk(1, updates, cId, e)

SpecBulk == InitSet /\ [][NextBulk]_vars

\* the text of sql after the first occurrence of sub
After(sql, sub) == SubSeq(sql, Index(sql, sub) + Len(sub), Len(sql))

\* the SET clauses of sql assign the columns cols, in this order
ClausesAre(sql, cols) ==
    /\ \A j \in 1..Len(cols) : Contains(sql, sSp \o cols[j] \o sCase)
                               \/ Contains(sql, sSet \o cols[j] \o sCase)
    /\ \A i, j \in 1..Len(cols) :
         i < j => Index(sql, cols[i] \o sCase) < Index(sql, cols[j] \o sCase)

\* args is, for each column of cols, the (key, value) pair of every row in
\* row order, followed by the key of every row in row order
BulkArgsAre(args, updates, keyColumn, cols) ==
    LET n == Len(updates)
        k == Len(cols)
    IN /\ Len(args) = 2 * n * k + n
       /\ \A j \in 1..k, i \in 1..n :
            /\ args[2 * n * (j - 1) + 2 * (i - 1) + 1] = MapGet(updates[i], keyColumn)
            /\ args[2 * n * (j - 1) + 2 * (i - 1) + 2] = MapGet(updates[i], cols[j])
       /\ \A i \in 1..n : args[2 * n * k + i] = MapGet(updates[i], keyColumn)

sExampleCase == <<"s","a","l","a","r","y"," ","="," ","C","A","S","E"," ","i","d"," ","W","H","E","N"," ","?"," ","T","H","E","N"," ","?"," ","W","H","E","N"," ","?"," ","T","H","E","N"," ","?"," ","E","L","S","E"," ","s","a","l","a","r","y"," ","E","N","D">>
ExampleBulkArgs ==
    <<IntV(1), IntV(100), IntV(2), IntV(200), IntV(1), IntV(2)>>

\* C13: for every non-empty batch UpdateBulk binds, for each SET clause in
\* the order generated, the (key, value) pair of every row in row order
\* and then the keys of all rows in row order; the IN list has one
\* placeholder per row and the statement has as many '?' as arguments;
\* rows {id:1,salary:100},{id:2,salary:200} give the one clause of the
\* example with args [1,100,2,200,1,2].
C13_UpdateBulkArgs ==
    (ret.op = "UpdateBulk" /\ Len(ret.in[1]) > 0)
        => LET updates == ret.in[1]
               keyColumn == ret.in[2]
           IN /\ \E cols \in RangeOrders(bulkColumns(updates, keyColumn)) :
                   /\ ClausesAre(exec.sql, cols)
                   /\ BulkArgsAre(exec.args, updates, keyColumn, cols)
              /\ CountQ(After(exec.sql, sWhere \o keyColumn \o sSpInOpen))
                   = Len(updates)
              /\ CountQ(exec.sql) = Len(exec.args)
              /\ updates = <<rowOne, rowTwo>>
                   => /\ Contains(exec.sql, sSet \o sExampleCase \o sWhere)
                      /\ exec.args = ExampleBulkArgs

\* C13 witness: UpdateBulk composed the example statement.
C13_Witness ==
    /\ ret.op = "UpdateBulk"
    /\ ret.in = <<(<<rowOne, rowTwo>>), cId>>
    /\ Contains(exec.sql, sSet \o sExampleCase \o sWhere)
    /\ exec.args = ExampleBulkArgs

\* the rows of a batch that carry the column c
Carrying(batch, c) == {i \in 1..Len(batch) : c \in Keys(batch[i])}

\* the text of the SET clause of sql that assigns the column c
ClauseOf(sql, c) ==
    SubSeq(sql, Index(sql, c \o sCase), Index(sql, sElse \o c \o sEnd))

\* C14: in UpdateBulk a row that does not set a non-key column keeps its
\* stored value: the clause of a column has a WHEN/THEN pair only for the
\* rows that carry the column, and no pair binds an absent value.
C14_AbsentColumnPreserved ==
    (/\ ret.op = "UpdateBulk" /\ Len(ret.in[1]) > 0
     /\ Carrying(ret.in[1], ret.in[2]) = 1..Len(ret.in[1]))
        => LET updates == ret.in[1]
               keyColumn == ret.in[2]
           IN /\ \A c \in bulkColumns(updates, keyColumn) :
                   CountQ(ClauseOf(exec.sql, c))
                      = 2 * Cardinality(Carrying(updates, c))
              /\ \A i \in 1..Len(exec.args) : exec.args[i] # NilV

\* C15: UpdateBulk on a batch in which some row lacks the key column
\* returns an error, executes no statement and binds no absent key.
C15_MissingKeyFailsFast ==
    (/\ ret.op = "UpdateBulk"
     /\ Carrying(ret.in[1], ret.in[2]) # 1..Len(ret.in[1]))
        => /\ ret.err # ""
           /\ exec.kind = "none"

\* one "(?, ..., ?)" group of k placeholders
Group(k) == sOpen \o Join(Placeholders(k), sCommaSp) \o sClose

\* C16: InsertBulk emits one statement whose column list is the key set of
\* the first row; with k columns and n rows it has n groups of k
\* placeholders and n*k arguments, and the argument at position r*k+j is
\* row r's value for the j-th listed column.
C16_InsertBulkLayout ==
    (ret.op = "InsertBulk" /\ Len(ret.in[1]) > 0)
        => LET data == ret.in[1]
               n == Len(data)
               k == Cardinality(Keys(data[1]))
           IN \E cols \in RangeOrders(Keys(data[1])) :
                /\ Contains(exec.sql, sSpOpen \o Join(cols, sCommaSp) \o sValues)
                /\ After(exec.sql, sValues) = Join(Repeat(n, Group(k)), sCommaSp)
                /\ CountQ(exec.sql) = n * k
                /\ Len(exec.args) = n * k
                /\ \A r \in 1..n, j \in 1..k :
                     cols[j] \in Keys(data[r])
                        => exec.args[(r - 1) * k + j] = MapGet(data[r], cols[j])

\* C16 witness: two rows of two columns were inserted by one statement.
C16_Witness ==
    /\ ret.op = "InsertBulk"
    /\ ret.in = << <<rowTwo, rowOne>> >>
    /\ exec.kind = "Exec"
    /\ Len(exec.args) = 4
    /\ exec.args[1] \in {IntV(2), IntV(200)}

\* C17: InsertBulk given a row that lacks one of the first row's columns
\* returns an error and executes no statement.
C17_MissingColumnFailsFast ==
    (/\ ret.op = "InsertBulk" /\ Len(ret.in[1]) > 0
     /\ \E r \in 1..Len(ret.in[1]) : ~(Keys(ret.in[1][1]) \subseteq Keys(ret.in[1][r])))
        => /\ ret.err # ""
           /\ exec.kind = "none"

\* C18: InsertBulk with an empty row list returns nil, issues no statement
\* to the connection or the transaction and leaves the builder unchanged.
C18_EmptyInsertBulkNoOp ==
    [][(ret'.op = "InsertBulk" /\ Len(ret'.in[1]) = 0)
          => /\ ret'.err = ""
             /\ exec'.kind = "none"
             /\ heap' = heap
             /\ txs' = txs]_vars

\* C18 witness: InsertBulk of an empty list returned nil inside an open
\* transaction without issuing a statement.
C18_Witness ==
    /\ ret.op = "InsertBulk"
    /\ ret.in = << <<>> >>
    /\ ret.err = ""
    /\ exec.kind = "none"
    /\ heap[1].tx # 0
    /\ txs[heap[1].tx] = "open"

dirDescUpper == <<"D","E","S","C">>
dirDescMixed == <<"D","e","s","c">>
dirAscLower == <<"a","s","c">>
dirAscMixed == <<"a","S","c">>
dirDescSpace == <<"d","e","s","c"," ">>

(***************************************************************************)
(* OrderBy with directions in every case, unknown and empty directions,    *)
(* and Paginate with pages and page sizes below 1, small, and large.       *)
(***************************************************************************)
Directions ==
    {sASC, dirAscLower, dirAscMixed, dirDescLower, dirDescUpper, dirDescMixed,
     dirSideways, dirDescSpace, <<>>}

Pages == {-1, 0, 1, 2, 2 ^ (IntBits - 2) + 1}
PerPages == {-5, 0, 3, 10}

NextOrder ==
    \/ \E c \in {cA, cB}, d \in Directions : OrderBy(1, c, d)
    \/ \E page \in Pages, perPage \in PerPages : Paginate(1, page, perPage)
    \/ Get(1, "")

SpecOrder == InitSet /\ [][NextOrder]_vars

\* d equals the word, given in lower and in upper case, case-insensitively
EqualFold(d, lower, upper) ==
    /\ Len(d) = Len(lower)
    /\ \A i \in 1..Len(d) : d[i] \in {lower[i], upper[i]}

\* C19: every ORDER BY term of every builder has direction 'ASC' or
\* 'DESC'; OrderBy(col, d) appends one term, with 'DESC' when d is 'desc'
\* case-insensitively and 'ASC' when d is 'asc' case-insensitively or
\* anything else, and returns no error.
C19_OrderDirection ==
    /\ [](\A b \in Alloc : \A i \in 1..Len(heap[b].orderBy) :
             heap[b].orderBy[i].Dir \in {sASC, sDESC})
    /\ [][\A c \in {cA, cB}, d \in Directions :
            (ret'.op = "OrderBy" /\ OrderBy(1, c, d))
               => LET old == heap[1].orderBy
                      new == heap'[1].orderBy
                  IN /\ Len(new) = Len(old) + 1
                     /\ SubSeq(new, 1, Len(old)) = old
                     /\ new[Len(new)].Column = c
                     /\ new[Len(new)].Dir =
                          IF EqualFold(d, dirDescLower, sDESC) THEN sDESC
                          ELSE sASC
                     /\ ret'.err = ""]_vars

\* C19 witness: OrderBy appended a DESC term after an ASC term.
C19_Witness ==
    /\ ret.op = "OrderBy"
    /\ Len(heap[1].orderBy) = 2
    /\ heap[1].orderBy[1].Dir = sASC
    /\ heap[1].orderBy[2].Dir = sDESC

\* C20: Paginate(page, perPage) sets limit = perPage and offset =
\* (page-1)*perPage after replacing page < 1 by 1 and perPage < 1 by 10, so
\* after every call limit >= 1 and offset >= 0; Paginate(page<1, perPage<1)
\* gives limit 10, offset 0 and Paginate(2, 10) gives limit 10, offset 10.
C20_Paginate ==
    [][\A page \in Pages, perPage \in PerPages :
         (ret'.op = "Paginate" /\ Paginate(1, page, perPage))
            => LET p == IF page < 1 THEN 1 ELSE page
                   pp == IF perPage < 1 THEN 10 ELSE perPage
               IN /\ heap'[1].limitVal = pp
                  /\ heap'[1].offsetVal = (p - 1) * pp
                  /\ heap'[1].limitVal >= 1
                  /\ heap'[1].offsetVal >= 0
                  /\ (page < 1 /\ perPage < 1)
                       => heap'[1].limitVal = 10 /\ heap'[1].offsetVal = 0
                  /\ (page = 2 /\ perPage = 10)
                       => heap'[1].limitVal = 10 /\ heap'[1].offsetVal = 10]_vars

RECURSIVE Marks(_)
\* n question marks separated by commas
Marks(n) ==
    IF n = 0 THEN <<>>
    ELSE IF n = 1 THEN <<"?">>
    ELSE <<"?", ",">> \o Marks(n - 1)

\* C21: WhereIn(col, values) with n >= 1 values appends one AND predicate
\* whose operator is 'IN (' followed by n comma-separated '?' and ')' and
\* which contributes exactly the n values, in order, to the arguments of
\* the serialized clause; with an empty list it appends no predicate.
C21_WhereIn ==
    [][\A a \in WhereInArgs :
         (ret'.op = "WhereIn" /\ WhereIn(1, a[1], a[2]))
            => LET old == heap[1].whereConds
                   new == heap'[1].whereConds
                   n == Len(a[2])
               IN IF n = 0 THEN new = old
                  ELSE /\ Len(new) = Len(old) + 1
                       /\ SubSeq(new, 1, Len(old)) = old
                       /\ new[Len(new)].Column = a[1]
                       /\ new[Len(new)].Logic = <<"A", "N", "D">>
                       /\ new[Len(new)].Operator
                            = <<"I", "N", " ", "(">> \o Marks(n) \o <<")">>
                       /\ buildWhereClause(new).args
                            = buildWhereClause(old).args \o a[2]
                       /\ CountQ(buildWhereClause(new).text)
                            = CountQ(buildWhereClause(old).text) + n]_vars

\* C21 witness: Get serialized the predicate of WhereIn("x", [1, 2, 3]).
C21_Witness ==
    /\ ret.op = "Get"
    /\ Len(heap[1].whereConds) = 1
    /\ heap[1].whereConds[1].Operator = <<"I","N"," ","(","?",",","?",",","?",")">>
    /\ exec.args = <<IntV(1), IntV(2), IntV(3)>>

(***************************************************************************)
(* PrintSQL: the SELECT with each argument written in place of a '?'.      *)
(***************************************************************************)
sNULL == <<"N","U","L","L">>
sQuote == <<"'">>

Digit(n) ==
    CASE n = 0 -> "0" [] n = 1 -> "1" [] n = 2 -> "2" [] n = 3 -> "3"
      [] n = 4 -> "4" [] n = 5 -> "5" [] n = 6 -> "6" [] n = 7 -> "7"
      [] n = 8 -> "8" [] n = 9 -> "9"

RECURSIVE Digits(_)
\* the decimal digits of n >= 0
Digits(n) == IF n < 10 THEN <<Digit(n)>> ELSE Append(Digits(n \div 10), Digit(n % 10))

\* fmt.Sprintf("%v", n) for an int
FormatInt(n) == IF n < 0 THEN <<"-">> \o Digits(-n) ELSE Digits(n)

RECURSIVE DoubleQuotes(_)
\* strings.Replace(v, "'", "''", -1)
DoubleQuotes(v) ==
    IF Len(v) = 0 THEN <<>>
    ELSE (IF Head(v) = "'" THEN <<"'", "'">> ELSE <<Head(v)>>)
           \o DoubleQuotes(Tail(v))

RECURSIVE FormatV(_)
\* fmt.Sprintf("%v", v): an int in decimal, a string as it is, nil as
\* <nil>, a []interface{} as its elements between brackets
FormatV(v) ==
    CASE v.k = "int" -> FormatInt(v.i)
      [] v.k = "str" -> v.s
      [] v.k = "nil" -> <<"<","n","i","l",">">>
      [] v.k = "list" ->
           LET RECURSIVE Elems(_)
               Elems(l) == IF Len(l) = 0 THEN <<>>
                           ELSE IF Len(l) = 1 THEN FormatV(l[1])
                           ELSE FormatV(l[1]) \o <<" ">> \o Elems(Tail(l))
           IN <<"[">> \o Elems(v.l) \o <<"]">>

\* the type switch of PrintSQL
Literal(arg) ==
    CASE arg.k = "str" -> sQuote \o DoubleQuotes(arg.s) \o sQuote
      [] arg.k = "nil" -> sNULL
      [] OTHER -> FormatV(arg)

\* strings.Replace(query, old, new, 1)
ReplaceFirst(query, old, new) ==
    LET i == Index(query, old)
    IN IF i = 0 THEN query
       ELSE SubSeq(query, 1, i - 1) \o new
              \o SubSeq(query, i + Len(old), Len(query))

RECURSIVE printLoop(_, _)
\* the loop of PrintSQL over the arguments still to be written
printLoop(query, args) ==
    IF Len(args) = 0 THEN query
    ELSE printLoop(ReplaceFirst(query, sQ, Literal(Head(args))), Tail(args))

\* the string PrintSQL returns for the builder record r
printSQL(r) ==
    LET q == buildSelectQuery(r)
    IN printLoop(q.text, q.args)

\* ret keeps the string returned
PrintSQL(b) ==
    /\ b \in Alloc
    /\ ret' = RetIn("PrintSQL", b, "", <<printSQL(heap[b])>>)
    /\ exec' = NoExec
    /\ UNCHANGED <<gsormOnce, gsormInstance, nb, heap, txs, wt, conc>>

\* configuration with string, nil and numeric arguments, then the
\* operations that compose a statement from it
NextPrint ==
    \/ Table(1, cT)
    \/ Where(1, cX, opGt, IntV(5))
    \/ Where(1, cY, opEq, vStr)
    \/ Where(1, cY, opEq, NilV)
    \/ WhereIn(1, cX, <<IntV(1), IntV(2)>>)
    \/ Limit(1, 10)
    \/ PrintSQL(1)
    \/ Get(1, "")
    \/ First(1)
    \/ Insert(1, rowOne, "")
    \/ Update(1, rowOne, "")
    \/ Delete(1, "")
    \/ ToArray(1, "")

SpecPrint == InitSet /\ [][NextPrint]_vars

RECURSIVE Substituted(_, _)
\* sql with its i-th '?' replaced by the literal of the i-th of args
Substituted(sql, args) ==
    IF Len(sql) = 0 THEN <<>>
    ELSE IF Head(sql) = "?" /\ Len(args) > 0
         THEN Literal(Head(args)) \o Substituted(Tail(sql), Tail(args))
         ELSE <<Head(sql)>> \o Substituted(Tail(sql), args)

\* C22: PrintSQL returns the composed SELECT with the i-th placeholder
\* replaced by the literal of the i-th argument, also when a string
\* argument contains '?', and no placeholder of the statement remains.
C22_PrintSQL ==
    ret.op = "PrintSQL"
        => LET q == buildSelectQuery(heap[ret.b])
           IN CountQ(q.text) = Len(q.args)
                 => ret.in[1] = Substituted(q.text, q.args)

\* the operations of C23
ReadOnlyOps == {"Get", "First", "Insert", "Update", "Delete", "ToArray", "PrintSQL"}

\* C23: a terminal operation reads the configuration only: after Get,
\* First, Insert, Update, Delete, ToArray or PrintSQL the builder's table,
\* projection, predicates, joins, ordering, grouping, having, limit and
\* offset are what they were before the call.
C23_TerminalReadOnly ==
    [][ret'.op \in ReadOnlyOps
          => Config(heap'[ret'.b]) = Config(heap[ret'.b])]_vars

(***************************************************************************)
(* The singleton: Set with either of two connections, DB, and the use of   *)
(* the builders they return.                                               *)
(***************************************************************************)
Connections == {1, 2}

NextSingleton ==
    \/ \E db \in Connections : Set(db)
    \/ DB
    \/ \E b \in BuilderIds : Table(b, cT)
    \/ \E b \in BuilderIds : Limit(b, 10)
    \/ \E b \in BuilderIds : Get(b, "")

SpecSingleton == InitEmpty /\ [][NextSingleton]_vars

\* C24: the first Set(db) creates the instance bound to db with projection
\* ['*']; every later Set(db'), for any db', returns that same instance
\* without rebinding its connection or resetting its state.
C24_SetOnce ==
    [][\A db \in Connections :
         (ret'.op = "Set" /\ Set(db))
            => IF ~gsormOnce
               THEN /\ ret'.b \notin Alloc
                    /\ gsormInstance' = ret'.b
                    /\ heap'[ret'.b].db = db
                    /\ Config(heap'[ret'.b]) = FreshConfig
                    /\ heap'[ret'.b].tx = 0
               ELSE /\ ret'.b = gsormInstance
                    /\ gsormInstance' = gsormInstance
                    /\ heap' = heap]_vars

\* C24 witness: Set was called again after the instance had been
\* configured and returned it as it was.
C24_Witness ==
    /\ ret.op = "Set"
    /\ ret.b = gsormInstance
    /\ heap[gsormInstance].table = cT
    /\ heap[gsormInstance].limitVal = 10

rowThree ==
    {[k |-> cId, v |-> IntV(1)], [k |-> cSalary, v |-> IntV(100)],
     [k |-> cName, v |-> StrV(<<"n">>)]}

Maps == {{}, rowOne, rowName, rowThree}

\* conflict keys: none, one column, all columns of rowOne, a column that
\* rowOne does not have
Conflicts == {<<>>, <<cId>>, <<cId, cSalary>>, <<cName>>}

NextWrite ==
    \/ Table(1, cT)
    \/ Where(1, cX, opGt, IntV(5))
    \/ Where(1, cX, sIN, ListV(<<IntV(1), IntV(2)>>))
    \/ WhereIn(1, cY, <<IntV(1), IntV(2)>>)
    \/ \E data \in Maps, e \in ExecErrs : Insert(1, data, e)
    \/ \E data \in Maps : Update(1, data, "")
    \/ Delete(1, "")
    \/ \E data \in Maps, cc \in Conflicts : CreateOrUpdate(1, data, cc, "")

SpecWrite == InitSet /\ [][NextWrite]_vars

\* C26: Insert(data) emits 'INSERT INTO table (cols) VALUES (placeholders)'
\* with one column name, one '?' and one argument per map entry, and for
\* every iteration order the i-th argument is the value of the i-th listed
\* column.
C26_InsertLayout ==
    ret.op = "Insert"
        => LET data == ret.in[1]
               k == Cardinality(data)
           IN \E cols \in RangeOrders(Keys(data)) :
                /\ exec.sql = sInsertInto \o heap[ret.b].table \o <<" ", "(">>
                                \o Join(cols, sCommaSp)
                                \o <<")"," ","V","A","L","U","E","S"," ","(">>
                                \o Join(Repeat(k, sQ), sCommaSp) \o <<")">>
                /\ Len(exec.args) = k
                /\ CountQ(exec.sql) = k
                /\ \A i \in 1..k : exec.args[i] = MapGet(data, cols[i])

\* C26 witness: a map of three entries was inserted.
C26_Witness ==
    /\ ret.op = "Insert"
    /\ ret.in = <<rowThree>>
    /\ exec.kind = "Exec"
    /\ Len(exec.args) = 3
    /\ exec.args[1] = StrV(<<"n">>)

\* C27: Update and Delete emit a WHERE clause exactly when the builder has
\* a WHERE predicate; Update binds the SET values in the order of the SET
\* clauses and then the WHERE arguments, Delete the WHERE arguments only,
\* and in both the number of '?' equals the number of arguments.
C27_UpdateDeleteWhere ==
    /\ ret.op = "Update"
         => LET data == ret.in[1]
                r == heap[ret.b]
            IN /\ Contains(exec.sql, sWhere) <=> Len(r.whereConds) > 0
               /\ \E cols \in RangeOrders(Keys(data)) :
                    /\ HasPrefix(exec.sql, sUpdate \o r.table \o sSet
                                   \o Join(SetClauses(cols), sCommaSp))
                    /\ exec.args = RowValues(data, cols)
                                     \o IntendedArgs(r.whereConds)
               /\ CountQ(exec.sql) = Len(exec.args)
    /\ ret.op = "Delete"
         => LET r == heap[ret.b]
            IN /\ Contains(exec.sql, sWhere) <=> Len(r.whereConds) > 0
               /\ exec.args = IntendedArgs(r.whereConds)
               /\ CountQ(exec.sql) = Len(exec.args)

\* C28: CreateOrUpdate(data, conflictColumns) inserts all columns of data
\* and has an update clause for every column of data that is not in
\* conflictColumns and for none that is; it has one '?' and one argument
\* per column, also when conflictColumns covers all columns of data.
C28_CreateOrUpdate ==
    ret.op = "CreateOrUpdate"
        => LET data == ret.in[1]
               conflict == {ret.in[2][i] : i \in 1..Len(ret.in[2])}
               k == Cardinality(data)
               tail == After(exec.sql, sOnDuplicate)
           IN /\ \E cols \in RangeOrders(Keys(data)) :
                   /\ HasPrefix(exec.sql, sInsertInto \o heap[ret.b].table
                                  \o sSpOpen \o Join(cols, sCommaSp) \o sValuesOpen)
                   /\ \A i \in 1..k : exec.args[i] = MapGet(data, cols[i])
              /\ Contains(exec.sql, sOnDuplicate)
              /\ \A c \in Keys(data) :
                   Contains(tail, c \o sEqValues \o c \o sClose) <=> c \notin conflict
              /\ \A c \in conflict \ Keys(data) : ~Contains(tail, c \o sEqValues)
              /\ CountQ(exec.sql) = k
              /\ Len(exec.args) = k

\* C28 witness: CreateOrUpdate was called with a conflict key that covers
\* all columns of data.
C28_Witness ==
    /\ ret.op = "CreateOrUpdate"
    /\ ret.in = <<rowOne, <<cId, cSalary>>>>
    /\ exec.kind = "Exec"
    /\ Len(exec.args) = 2

(***************************************************************************)
(* Transactions over a builder and its clones.                             *)
(***************************************************************************)
NextTxClone ==
    \/ \E b \in BuilderIds : BeginTransaction(b)
    \/ \E b \in BuilderIds : CommitTransaction(b)
    \/ \E b \in BuilderIds : RollbackTransaction(b)
    \/ \E b \in BuilderIds : WithTransaction(b)
    \/ WithTransactionReturn
    \/ \E b \in BuilderIds : Clone(b)
    \/ \E b \in BuilderIds : Get(b, "")

SpecTxClone == InitSet /\ [][NextTxClone]_vars

\* C29: no builder routes a terminal operation to a transaction that has
\* been committed or rolled back: once a transaction is finished through
\* one builder, no builder cloned while it was active has it bound.
C29_NoFinishedTransaction ==
    /\ \A b \in Alloc : heap[b].tx # 0 => txs[heap[b].tx] = "open"
    /\ (exec.kind # "none" /\ exec.tx # 0) => txs[exec.tx] = "open"

(***************************************************************************)
(* Concurrent use through DB().  conc.g[i] is goroutine i: its position    *)
(* pc, its builder b, the locals query and clause of buildSelectQuery and  *)
(* buildWhereClause (pointers into conc.sb), the strings w and q returned  *)
(* by String(), the arguments collected and the statement handed to the    *)
(* executor (kept per goroutine).  conc.sb are the strings.Builder objects *)
(* the pool's New can make, conc.pool[s] whether s is in stringBuilderPool, *)
(* conc.mem the byte arrays.  A strings.Builder is its buffer (an array    *)
(* and a length); a string is an array and a length too: String() shares   *)
(* the array.  An allocation returns an object nobody else has: the one    *)
(* numbered after the goroutine and the local it is allocated for.         *)
(***************************************************************************)
\* number of goroutines that use DB() concurrently
MaxGoroutines == 2

Goroutines == 1..MaxGoroutines

\* the string ""
NoString == [buf |-> 0, len |-> 0]

\* &strings.Builder{}: the nil buffer
NewStringBuilder == [buf |-> 0, len |-> 0]

\* the object allocated by goroutine i for its local query / clause
ForQuery(i) == 2 * i - 1
ForClause(i) == 2 * i

\* a goroutine that has not called DB() yet
NewGoroutine ==
    [pc |-> "DB", b |-> 0, query |-> 0, clause |-> 0, w |-> NoString,
     q |-> NoString, args |-> <<>>, stmt |-> NoExec]

\* the bytes of the string str
Bytes(c, str) ==
    IF str.buf = 0 THEN <<>> ELSE SubSeq(c.mem[str.buf], 1, str.len)

\* a Reset that keeps the array and truncates it
Reset_Truncate(c, s) == [c EXCEPT !.sb[s].len = 0]

\* sb.Reset(): the buffer becomes nil
Reset(c, s) == [c EXCEPT !.sb[s] = NewStringBuilder]

\* sb.WriteString(text): append(b.buf, text...).  A nil buffer gets a new
\* array; otherwise the bytes go behind the buffer's length, and growth
\* keeps the array's identity (every string over the array sees the write)
WriteString(c, s, text, fresh) ==
    IF c.sb[s].buf = 0
    THEN [c EXCEPT !.mem[fresh] = text,
                   !.sb[s] = [buf |-> fresh, len |-> Len(text)]]
    ELSE LET old == c.mem[c.sb[s].buf]
             n == c.sb[s].len
         IN [c EXCEPT !.mem[c.sb[s].buf] =
                          SubSeq(old, 1, n) \o text
                            \o SubSeq(old, n + Len(text) + 1, Len(old)),
                      !.sb[s].len = n + Len(text)]

\* sb.String(): a string over the buffer's array
String(c, s) == c.sb[s]

\* what stringBuilderPool.Get() can return: a builder that is in the pool,
\* or the new one fresh (the pool is empty, or it does not find its items)
PoolGet(c, fresh) == {s \in DOMAIN c.pool : c.pool[s]} \cup {fresh}

\* getStringBuilder() when the pool answers with builder s
getStringBuilder(c, s) == Reset([c EXCEPT !.pool[s] = FALSE], s)

putStringBuilder(c, s) == [c EXCEPT !.pool[s] = TRUE]

\* the arguments of goroutine i's chain: every goroutine has its own
cAge == <<"a","g","e">>
goTable(i) == <<"u", Digit(i)>>
goAge(i) == IntV(30 + i)
goLimit(i) == 10 + i

\* one step of goroutine i from position pc: its record becomes g and the
\* string builders c; the sequential caller's ret is not involved
GoStep(i, pc, g, c) ==
    /\ i \in Goroutines
    /\ conc.g[i].pc = pc
    /\ conc' = [c EXCEPT !.g[i] = g]

\* b := DB()
GoDB(i) ==
    /\ gsormInstance # 0
    /\ nb < Len(heap)
    /\ nb' = nb + 1
    /\ heap' = [heap EXCEPT ![nb + 1] = CloneOf(heap[gsormInstance])]
    /\ GoStep(i, "DB", [conc.g[i] EXCEPT !.pc = "Table", !.b = nb + 1], conc)
    /\ UNCHANGED <<gsormOnce, gsormInstance, txs, wt, exec, ret>>

\* a configuration method that writes the shared instance
GoConfigure_Shared(i, pc, next, r) ==
    /\ heap' = [heap EXCEPT ![gsormInstance] = r]
    /\ GoStep(i, pc, [conc.g[i] EXCEPT !.pc = next], conc)
    /\ UNCHANGED <<gsormOnce, gsormInstance, nb, txs, wt, exec, ret>>

\* a configuration method called by goroutine i on its builder
GoConfigure(i, pc, next, r) ==
    /\ heap' = [heap EXCEPT ![conc.g[i].b] = r]
    /\ GoStep(i, pc, [conc.g[i] EXCEPT !.pc = next], conc)
    /\ UNCHANGED <<gsormOnce, gsormInstance, nb, txs, wt, exec, ret>>

\* b.Table(...)
GoTable(i) ==
    /\ conc.g[i].pc = "Table"
    /\ GoConfigure(i, "Table", "Where",
                   [heap[conc.g[i].b] EXCEPT !.table = goTable(i)])

\* b.Where("age", ">", ...)
GoWhere(i) ==
    /\ conc.g[i].pc = "Where"
    /\ GoConfigure(i, "Where", "Limit",
         [heap[conc.g[i].b] EXCEPT !.whereConds =
             Append(@, WhereCondition(cAge, opGt, goAge(i), sAND))])

\* b.Limit(...)
GoLimit(i) ==
    /\ conc.g[i].pc = "Limit"
    /\ GoConfigure(i, "Limit", "Get",
                   [heap[conc.g[i].b] EXCEPT !.limitVal = goLimit(i)])

\* a step of the composition: the heap is only read
GoCompose(i, pc, g, c) ==
    /\ GoStep(i, pc, g, c)
    /\ UNCHANGED <<gsormOnce, gsormInstance, nb, heap, txs, wt, exec, ret>>

\* b.Get() enters buildSelectQuery: query := getStringBuilder()
GoGet(i) ==
    \E s \in PoolGet(conc, ForQuery(i)) :
        GoCompose(i, "Get",
                  [conc.g[i] EXCEPT !.pc = "select", !.query = s, !.args = <<>>],
                  getStringBuilder(conc, s))

\* buildSelectQuery: the SELECT and JOIN clauses and, when there are
\* predicates, " WHERE "
GoSelect(i) ==
    /\ conc.g[i].pc = "select"
    /\ LET r == heap[conc.g[i].b]
           q1 == joinClauses(selectFrom(r), r)
           some == Len(r.whereConds) > 0
       IN GoCompose(i, "select",
              [conc.g[i] EXCEPT !.pc = IF some THEN "clause" ELSE "rest"],
              WriteString(conc, conc.g[i].query,
                          IF some THEN q1.text \o sWhere ELSE q1.text,
                          ForQuery(i)))

\* buildWhereClause: clause := getStringBuilder()
GoClause(i) ==
    \E s \in PoolGet(conc, ForClause(i)) :
        GoCompose(i, "clause",
                  [conc.g[i] EXCEPT !.pc = "conditions", !.clause = s],
                  getStringBuilder(conc, s))

\* buildWhereClause: the loop over the conditions
GoConditions(i) ==
    /\ conc.g[i].pc = "conditions"
    /\ LET w == buildWhereClause(heap[conc.g[i].b].whereConds)
       IN GoCompose(i, "conditions",
              [conc.g[i] EXCEPT !.pc = "clauseReturn", !.args = w.args],
              WriteString(conc, conc.g[i].clause, w.text, ForClause(i)))

\* buildWhereClause: return clause.String(), args; then the deferred
\* putStringBuilder(clause)
GoClauseReturn(i) ==
    /\ conc.g[i].pc = "clauseReturn"
    /\ GoCompose(i, "clauseReturn",
          [conc.g[i] EXCEPT !.pc = "whereClause",
                            !.w = String(conc, conc.g[i].clause)],
          putStringBuilder(conc, conc.g[i].clause))

\* buildSelectQuery: query.WriteString(whereClause); clause and the
\* string are not used after it
GoWhereClause(i) ==
    /\ conc.g[i].pc = "whereClause"
    /\ GoCompose(i, "whereClause",
          [conc.g[i] EXCEPT !.pc = "rest", !.clause = 0, !.w = NoString],
          WriteString(conc, conc.g[i].query, Bytes(conc, conc.g[i].w),
                      ForQuery(i)))

\* buildSelectQuery: GROUP BY, ORDER BY, LIMIT and OFFSET (the chain has no
\* HAVING)
GoRest(i) ==
    /\ conc.g[i].pc = "rest"
    /\ Len(heap[conc.g[i].b].having) = 0
    /\ LET r == heap[conc.g[i].b]
           q0 == [text |-> <<>>, args |-> conc.g[i].args]
           q7 == offsetClause(limitClause(orderByClause(
                    groupByClause(q0, r), r), r), r)
       IN GoCompose(i, "rest",
              [conc.g[i] EXCEPT !.pc = "return", !.args = q7.args],
              WriteString(conc, conc.g[i].query, q7.text, ForQuery(i)))

\* buildSelectQuery: return query.String(), args; then the deferred
\* putStringBuilder(query)
GoReturn(i) ==
    /\ conc.g[i].pc = "return"
    /\ GoCompose(i, "return",
          [conc.g[i] EXCEPT !.pc = "Query",
                            !.q = String(conc, conc.g[i].query)],
          putStringBuilder(conc, conc.g[i].query))

\* Get: b.db.Query(query, args...) (or b.tx.Query); the goroutine ends
GoQuery(i) ==
    /\ conc.g[i].pc = "Query"
    /\ GoCompose(i, "Query",
          [NewGoroutine EXCEPT !.pc = "done", !.b = conc.g[i].b,
              !.stmt = Route("Query", heap[conc.g[i].b],
                             Bytes(conc, conc.g[i].q), conc.g[i].args)],
          conc)

\* after Set(db) with connection 1, with MaxGoroutines goroutines started
InitConc ==
    /\ gsormOnce = TRUE
    /\ gsormInstance = 1
    /\ nb = 1
    /\ heap = [Repeat(1 + MaxGoroutines, ZeroBuilder) EXCEPT
                 ![1] = [ZeroBuilder EXCEPT !.db = 1, !.selectCols = <<sStar>>]]
    /\ txs = Repeat(MaxTx, "free")
    /\ wt = NoWT
    /\ exec = NoExec
    /\ ret = Ret("Set", 1, "")
    /\ conc = [g |-> Repeat(MaxGoroutines, NewGoroutine),
               sb |-> Repeat(2 * MaxGoroutines, NewStringBuilder),
               pool |-> Repeat(2 * MaxGoroutines, FALSE),
               mem |-> Repeat(2 * MaxGoroutines, <<>>)]

NextConc ==
    \/ \E i \in Goroutines : GoDB(i)
    \/ \E i \in Goroutines : GoTable(i)
    \/ \E i \in Goroutines : GoWhere(i)
    \/ \E i \in Goroutines : GoLimit(i)
    \/ \E i \in Goroutines : GoGet(i)
    \/ \E i \in Goroutines : GoSelect(i)
    \/ \E i \in Goroutines : GoClause(i)
    \/ \E i \in Goroutines : GoConditions(i)
    \/ \E i \in Goroutines : GoClauseReturn(i)
    \/ \E i \in Goroutines : GoWhereClause(i)
    \/ \E i \in Goroutines : GoRest(i)
    \/ \E i \in Goroutines : GoReturn(i)
    \/ \E i \in Goroutines : GoQuery(i)

SpecConc == InitConc /\ [][NextConc]_vars

\* the string builders goroutine i is composing on
Composing(i) ==
    (IF conc.g[i].pc \in {"select", "clause", "conditions", "clauseReturn",
                          "whereClause", "rest", "return"}
     THEN {conc.g[i].query} ELSE {})
    \cup (IF conc.g[i].pc \in {"conditions", "clauseReturn"}
          THEN {conc.g[i].clause} ELSE {})

\* goroutine i's statement is the one of its own table, predicate and limit
OwnStatement(i) ==
    /\ conc.g[i].stmt.kind = "Query"
    /\ conc.g[i].stmt.sql = sSelect \o sStar \o sFrom \o goTable(i) \o sWhere
                              \o cAge \o sSp \o opGt \o sSpQ \o sLimitQ
    /\ conc.g[i].stmt.args = <<goAge(i), IntV(goLimit(i))>>
    /\ conc.g[i].stmt.db = 1
    /\ conc.g[i].stmt.tx = 0

\* a builder being composed on is out of the pool and nobody else's
ExclusiveBuilders ==
    \A i \in Goroutines :
        /\ \A s \in Composing(i) : ~conc.pool[s]
        /\ \A j \in Goroutines \ {i} : Composing(i) \cap Composing(j) = {}

\* a step writes no Builder but the one of the goroutine that takes it,
\* and never the instance
OwnBuilderOnly ==
    /\ conc' # NoConc => heap'[gsormInstance] = heap[gsormInstance]
    /\ \A i \in DOMAIN conc.g :
         (conc'.g[i] = conc.g[i] /\ conc.g[i].b # 0)
            => heap'[conc.g[i].b] = heap[conc.g[i].b]

\* C30: when several goroutines each call DB() after Set and chain Table,
\* Where, Limit and Get on the builder returned to them, in every
\* interleaving each goroutine's statement has exactly its own table,
\* predicate and limit, no step writes a Builder of another goroutine or the
\* instance, and no pooled string builder is composed on by two at once
C30_ConcurrentDB ==
    /\ [](\A i \in DOMAIN conc.g : conc.g[i].pc = "done" => OwnStatement(i))
    /\ []ExclusiveBuilders
    /\ [][OwnBuilderOnly]_vars

\* a goroutine holds the string of its statement, not yet executed, while
\* another one composes on the pooled builder that string came from
C30_Witness ==
    \E i \in DOMAIN conc.g : \E j \in DOMAIN conc.g :
        /\ i # j
        /\ conc.g[i].pc = "Query"
        /\ conc.g[j].pc = "return"
        /\ conc.g[j].query = conc.g[i].query

====
